---- MODULE Spec2Model ----
(***************************************************************************)
(* sixfive: an 8-bit virtual CPU (cpu.rs) wired to a 4-voice sound chip    *)
(* (sound.rs), driven once per output sample by the plugin's process()     *)
(* loop (lib.rs) and by the editor's buttons (gui.rs).                     *)
(*                                                                         *)
(* A Rust panic on the audio or editor thread happens while the CPU mutex  *)
(* is held; the mutex is then poisoned and every later lock().unwrap()     *)
(* panics too.  The model records this as panicked = TRUE, after which no  *)
(* operation acts on the CPU any more.                                     *)
(***************************************************************************)
EXTENDS Integers, Sequences, FiniteSets, TLC

VARIABLES
    accumulator,            \* Cpu.accumulator: u8
    instruction_pointer,    \* Cpu.instruction_pointer: u8
    status_register,        \* Cpu.status_register: (zero, negative)
    clock_running,          \* Cpu.clock_running
    beats_waiting,          \* Cpu.beats_waiting: u8
    cycles_waiting,         \* Cpu.cycles_waiting: u8
    ram,                    \* Cpu.ram: [u8; 0x20]
    sound,                  \* Cpu.sound: SoundChip
    rom_banks,              \* SixFiveParams.rom_banks: [Vec<u16>; 4]
    rom_bank_select,        \* SixFiveParams.rom_bank_select, as its index
    trampoline_vectors,     \* SixFiveParams.trampoline_vectors[i].state
    clock_speed,            \* SixFiveParams.clock_speed (instructions / s)
    sample_rate,            \* SixFive.sample_rate (samples / s)
    samples_until_execute,  \* SixFive.samples_until_execute, in 1/clock_speed samples
    panicked,               \* a panic has poisoned the CPU mutex
    last,                   \* history: the operation that produced this state
    stall,                  \* history: the most recent NOOP and the stalls since
    error_stop,             \* history: a fault or unimplemented opcode, no reset since
    request,                \* input: the register write the host is about to make
    budget,                 \* history: operations counted against the model's bounds
    run,                    \* history: the calls of a counted run, see RunStart
    cpu_mutex,              \* SixFive.cpu: Arc<Mutex<Cpu>>, the thread holding it
    rom_mutex,              \* SixFiveParams.rom_banks: Mutex, the thread holding it
    pc                      \* where the audio and the editor thread stand

vars == <<accumulator, instruction_pointer, status_register, clock_running,
          beats_waiting, cycles_waiting, ram, sound, rom_banks, rom_bank_select,
          trampoline_vectors, clock_speed, sample_rate, samples_until_execute,
          panicked, last, stall, error_stop, request, budget, run,
          cpu_mutex, rom_mutex, pc>>

cpu_vars == <<accumulator, instruction_pointer, status_register, clock_running,
              beats_waiting, cycles_waiting, ram, sound>>

param_vars == <<rom_banks, rom_bank_select, trampoline_vectors, clock_speed,
                sample_rate>>

lock_vars == <<cpu_mutex, rom_mutex, pc>>

(***************************************************************************)
(* Bounds of the model.                                                    *)
(***************************************************************************)
\* Editor button presses in one run.
MaxEditorActions == 2
\* SoundChip::generate() calls in one run.
MaxGenerate == 2
\* execute() calls of a counted run: the 100 of the end-to-end scenario.
MaxExecute == 100
\* generate() calls of a counted run: one more than the 32767 states a 15-bit
\* shift register can cycle through.
MaxNoiseCalls == 32768

(***************************************************************************)
(* Bytes and bit operations on them.                                       *)
(***************************************************************************)
Byte == 0..255

Bit(v, i) == (v \div (2^i)) % 2

BitAnd(a, b) ==
    LET t(i) == Bit(a, i) * Bit(b, i) * (2^i)
    IN  t(0) + t(1) + t(2) + t(3) + t(4) + t(5) + t(6) + t(7) + t(8) + t(9) + t(10)

BitOr(a, b) == a + b - BitAnd(a, b)

BitXor(a, b) == a + b - 2 * BitAnd(a, b)

\* Fault injection: addition that saturates at 255.
WrappingAdd_Saturating(a, b) == IF a + b > 255 THEN 255 ELSE a + b

\* u8::wrapping_add, u8::wrapping_sub
WrappingAdd(a, b) == (a + b) % 256

\* Fault injection: subtraction that saturates at 0.
WrappingSub_Saturating(a, b) == IF a < b THEN 0 ELSE a - b

WrappingSub(a, b) == (a - b + 256) % 256

\* u8::rotate_left(n as u32), u8::rotate_right(n as u32): the count is taken mod 8
RotateLeft(a, n) ==
    LET k == n % 8
    IN  ((a * (2^k)) % 256) + (a \div (2^(8 - k)))

RotateRight(a, n) ==
    LET k == n % 8
    IN  (a \div (2^k)) + ((a * (2^(8 - k))) % 256)

\* u8 << n and u8 >> n with the count masked to the width (no overflow checks)
ShlMasked(a, n) == (a * (2^(n % 8))) % 256

ShrMasked(a, n) == a \div (2^(n % 8))

BoolToU8(b) == IF b THEN 1 ELSE 0

\* A value a fallible operation yields, or the panic it raises.
Ok(v) == [fault |-> FALSE, value |-> v]

Panic == [fault |-> TRUE, value |-> 0]

(***************************************************************************)
(* sound.rs: ChannelRegisters                                              *)
(***************************************************************************)
\* time_since_note is counted in samples: tick() adds 1 / sample_rate seconds.
ChannelRegistersDefault ==
    [duty_cycle |-> 0, looping |-> FALSE, envelope |-> FALSE, envelope_length |-> 0,
     shift_enabled |-> FALSE, shift_period |-> 0, shift_reverse |-> FALSE,
     shift_speed |-> 0, period |-> 0, note_length |-> 0, time_since_note |-> 0]

\* ChannelRegisters::read; the value is cast to u8
ChannelRead(regs, register) ==
    CASE register = 0 ->
            Ok(BitOr(BitOr((regs.duty_cycle * 64) % 256, BoolToU8(regs.looping) * 32),
                     BitOr(BoolToU8(regs.envelope) * 16, regs.envelope_length)))
      [] register = 1 ->
            Ok(BitOr(BitOr(BoolToU8(regs.shift_enabled) * 128,
                           (regs.shift_period * 16) % 256),
                     BitOr(BoolToU8(regs.shift_reverse) * 8, regs.shift_speed)))
      [] register = 2 -> Ok(regs.period % 256)
      [] register = 3 ->
            Ok(BitOr((regs.period \div 256) % 256, (regs.note_length * 8) % 256))
      [] OTHER -> Panic

\* Fault injection: ChannelRegisters::write of register 0 keeping the upper
\* four bits of the value as the duty cycle.
ChannelWrite_WideDuty(regs, register, value) ==
    CASE register = 0 ->
            Ok([regs EXCEPT !.duty_cycle = value \div 16,
                            !.looping = ((value \div 32) % 2 = 1),
                            !.envelope = ((value \div 16) % 2 = 1),
                            !.envelope_length = value % 16])
      [] register = 1 ->
            Ok([regs EXCEPT !.shift_enabled = ((value \div 128) % 2 = 1),
                            !.shift_period = (value \div 16) % 8,
                            !.shift_reverse = ((value \div 8) % 2 = 1),
                            !.shift_speed = value % 8])
      [] register = 2 ->
            Ok([regs EXCEPT !.period = BitOr(BitAnd(regs.period, 1792), value)])
      [] register = 3 ->
            Ok([regs EXCEPT !.period = BitOr(BitAnd(regs.period, 255),
                                             (value % 8) * 256),
                            !.note_length = (value \div 8) % 32,
                            !.time_since_note = 0])
      [] OTHER -> Panic

\* Fault injection: ChannelRegisters::write of register 2 replacing the whole
\* period, the bits of register 3 included.
ChannelWrite_PeriodReplaced(regs, register, value) ==
    CASE register = 0 ->
            Ok([regs EXCEPT !.duty_cycle = (value \div 64) % 4,
                            !.looping = ((value \div 32) % 2 = 1),
                            !.envelope = ((value \div 16) % 2 = 1),
                            !.envelope_length = value % 16])
      [] register = 1 ->
            Ok([regs EXCEPT !.shift_enabled = ((value \div 128) % 2 = 1),
                            !.shift_period = (value \div 16) % 8,
                            !.shift_reverse = ((value \div 8) % 2 = 1),
                            !.shift_speed = value % 8])
      [] register = 2 -> Ok([regs EXCEPT !.period = value])
      [] register = 3 ->
            Ok([regs EXCEPT !.period = BitOr(BitAnd(regs.period, 255),
                                             (value % 8) * 256),
                            !.note_length = (value \div 8) % 32,
                            !.time_since_note = 0])
      [] OTHER -> Panic

\* Fault injection: ChannelRegisters::write keeping only two of the three
\* period bits of register 3.
ChannelWrite_NarrowPeriodHigh(regs, register, value) ==
    CASE register = 0 ->
            Ok([regs EXCEPT !.duty_cycle = (value \div 64) % 4,
                            !.looping = ((value \div 32) % 2 = 1),
                            !.envelope = ((value \div 16) % 2 = 1),
                            !.envelope_length = value % 16])
      [] register = 1 ->
            Ok([regs EXCEPT !.shift_enabled = ((value \div 128) % 2 = 1),
                            !.shift_period = (value \div 16) % 8,
                            !.shift_reverse = ((value \div 8) % 2 = 1),
                            !.shift_speed = value % 8])
      [] register = 2 ->
            Ok([regs EXCEPT !.period = BitOr(BitAnd(regs.period, 1792), value)])
      [] register = 3 ->
            Ok([regs EXCEPT !.period = BitOr(BitAnd(regs.period, 255),
                                             (value % 4) * 256),
                            !.note_length = (value \div 8) % 32,
                            !.time_since_note = 0])
      [] OTHER -> Panic

\* ChannelRegisters::write
ChannelWrite(regs, register, value) ==
    CASE register = 0 ->
            Ok([regs EXCEPT !.duty_cycle = (value \div 64) % 4,
                            !.looping = ((value \div 32) % 2 = 1),
                            !.envelope = ((value \div 16) % 2 = 1),
                            !.envelope_length = value % 16])
      [] register = 1 ->
            Ok([regs EXCEPT !.shift_enabled = ((value \div 128) % 2 = 1),
                            !.shift_period = (value \div 16) % 8,
                            !.shift_reverse = ((value \div 8) % 2 = 1),
                            !.shift_speed = value % 8])
      [] register = 2 ->
            Ok([regs EXCEPT !.period = BitOr(BitAnd(regs.period, 1792), value)])
      [] register = 3 ->
            Ok([regs EXCEPT !.period = BitOr(BitAnd(regs.period, 255),
                                             (value % 8) * 256),
                            !.note_length = (value \div 8) % 32,
                            !.time_since_note = 0])
      [] OTHER -> Panic

\* Fault injection: a tick that advances the time by two sample periods.
ChannelTick_TwoPeriods(regs) == [regs EXCEPT !.time_since_note = @ + 2]

\* ChannelRegisters::tick
ChannelTick(regs) == [regs EXCEPT !.time_since_note = @ + 1]

\* An f32 amplitude: the fraction num / den, or the NaN a division by zero
\* leaves.
Number(num, den) == [nan |-> FALSE, num |-> num, den |-> den]

NaN == [nan |-> TRUE, num |-> 0, den |-> 1]

\* get_effective_volume: time_since_note > note_length_to_seconds(note_length),
\* with n samples being n / sample_rate seconds and the length note_length / 60
NoteEnded(regs) == 60 * regs.time_since_note > regs.note_length * sample_rate

\* Fault injection: a looping channel's note never ends.
get_effective_volume_LoopRestarts(regs) ==
    IF NoteEnded(regs) /\ ~regs.looping THEN Number(0, 1)
    ELSE IF regs.envelope
         THEN IF regs.envelope_length = 0 THEN NaN
              ELSE LET total == regs.envelope_length * sample_rate
                       elapsed == 15 * regs.time_since_note
                   IN  Number(total - (elapsed % total), total)
         ELSE Number(regs.envelope_length, 15)

\* ChannelRegisters::get_effective_volume.  The envelope lasts
\* envelope_length / 15 seconds, so in units of 1 / (15 * sample_rate) seconds
\* elapsed is 15 * time_since_note and total is envelope_length * sample_rate;
\* with total = 0.0 both elapsed % total and the division by total are NaN.
get_effective_volume(regs) ==
    IF NoteEnded(regs) THEN Number(0, 1)
    ELSE IF regs.envelope
         THEN IF regs.envelope_length = 0 THEN NaN
              ELSE LET total == regs.envelope_length * sample_rate
                       elapsed == 15 * regs.time_since_note
                   IN  Number(total - (elapsed % total), total)
         ELSE Number(regs.envelope_length, 15)

\* conversions::seconds_to_shift_steps of a time counted in samples:
\* (seconds / 120.0) as u16, a cast that rounds down and saturates
seconds_to_shift_steps(samples) ==
    LET steps == samples \div (120 * sample_rate)
    IN  IF steps > 65535 THEN 65535 ELSE steps

\* get_effective_period, one pass of its loop in exact arithmetic:
\* effective_period -= or += effective_period >> shift_period
SweepStep(regs, period) ==
    IF regs.shift_reverse THEN period - period \div (2^regs.shift_period)
    ELSE period + period \div (2^regs.shift_period)

\* Fault injection: the sweep applied also while it is disabled.
get_effective_period_AlwaysSweeps(regs, checked) ==
    LET steps == seconds_to_shift_steps(regs.time_since_note)
        swept[n \in 0..steps] ==
            IF n = 0 THEN Ok(regs.period)
            ELSE LET next == SweepStep(regs, swept[n - 1].value)
                 IN  IF swept[n - 1].fault \/ (checked /\ next > 65535)
                     THEN Panic
                     ELSE Ok(next % 65536)
    IN  swept[steps]

\* ChannelRegisters::get_effective_period.  The u16 addition panics on
\* overflow in a build with overflow checks (checked) and wraps in one without.
get_effective_period(regs, checked) ==
    LET steps == seconds_to_shift_steps(regs.time_since_note)
        swept[n \in 0..steps] ==
            IF n = 0 THEN Ok(regs.period)
            ELSE LET next == SweepStep(regs, swept[n - 1].value)
                 IN  IF swept[n - 1].fault \/ (checked /\ next > 65535)
                     THEN Panic
                     ELSE Ok(next % 65536)
    IN  IF regs.shift_enabled THEN swept[steps] ELSE Ok(regs.period)

(***************************************************************************)
(* sound.rs: Noise, SoundChip                                              *)
(***************************************************************************)
\* Fault injection: the feedback taken from bits 0 and 2 of the shift register.
NoiseFeedback_OtherTap(shift_register) ==
    BitXor(shift_register % 2, (shift_register \div 4) % 2)

\* Noise::generate: the feedback bit and the new shift register
NoiseFeedback(shift_register) ==
    BitXor(shift_register % 2, (shift_register \div 2) % 2)

NoiseStep(shift_register) ==
    BitOr(shift_register \div 2, NoiseFeedback(shift_register) * 16384)

\* SoundChip::default: four default channels, the noise generator seeded with 1
SoundChipDefault ==
    [square_wave_1 |-> ChannelRegistersDefault,
     square_wave_2 |-> ChannelRegistersDefault,
     triangle_wave |-> ChannelRegistersDefault,
     noise |-> ChannelRegistersDefault,
     shift_register |-> 1]

\* SoundChip::read
SoundRead(s, register) ==
    CASE register \in 160..163 -> ChannelRead(s.square_wave_1, register - 160)
      [] register \in 164..167 -> ChannelRead(s.square_wave_2, register - 164)
      [] register \in 168..171 -> ChannelRead(s.triangle_wave, register - 168)
      [] register \in 172..175 -> ChannelRead(s.noise, register - 172)
      [] OTHER -> Panic

\* SoundChip::write
SoundWrite(s, register, value) ==
    CASE register \in 160..163 ->
            LET r == ChannelWrite(s.square_wave_1, register - 160, value)
            IN  [fault |-> r.fault,
                 value |-> IF r.fault THEN s ELSE [s EXCEPT !.square_wave_1 = r.value]]
      [] register \in 164..167 ->
            LET r == ChannelWrite(s.square_wave_2, register - 164, value)
            IN  [fault |-> r.fault,
                 value |-> IF r.fault THEN s ELSE [s EXCEPT !.square_wave_2 = r.value]]
      [] register \in 168..171 ->
            LET r == ChannelWrite(s.triangle_wave, register - 168, value)
            IN  [fault |-> r.fault,
                 value |-> IF r.fault THEN s ELSE [s EXCEPT !.triangle_wave = r.value]]
      [] register \in 172..175 ->
            LET r == ChannelWrite(s.noise, register - 172, value)
            IN  [fault |-> r.fault,
                 value |-> IF r.fault THEN s ELSE [s EXCEPT !.noise = r.value]]
      [] OTHER -> [fault |-> TRUE, value |-> s]

\* SoundChip::generate, its effect on the chip's state: every channel ticks and
\* the noise generator steps once.
SoundGenerate(s) ==
    [square_wave_1 |-> ChannelTick(s.square_wave_1),
     square_wave_2 |-> ChannelTick(s.square_wave_2),
     triangle_wave |-> ChannelTick(s.triangle_wave),
     noise |-> ChannelTick(s.noise),
     shift_register |-> NoiseStep(s.shift_register)]

\* Fault injection: the noise channel sounding when the feedback bit is 1.
NoiseOutput_Inverted(s) ==
    IF NoiseFeedback(s.shift_register) = 1
    THEN get_effective_volume(ChannelTick(s.noise))
    ELSE Number(0, 1)

\* Channel<Noise>::generate, the sample it returns: after the tick, the
\* effective volume if the feedback bit computed from the shift register is 0,
\* else 0.0
NoiseOutput(s) ==
    IF NoiseFeedback(s.shift_register) = 0
    THEN get_effective_volume(ChannelTick(s.noise))
    ELSE Number(0, 1)

\* SquareWave::generate panics: in get_effective_period, or on a duty cycle
\* its match has no arm for.  regs is the channel after its tick.
SquarePanics(regs, checked) ==
    get_effective_period(regs, checked).fault \/ regs.duty_cycle \notin 0..3

\* TriangleWave::generate panics: in get_effective_period.
TrianglePanics(regs, checked) == get_effective_period(regs, checked).fault

\* SoundChip::generate, one call: the chip it leaves and whether it panicked.
\* The channels generate in the order of the sum, each ticking first; a panic
\* leaves the later channels and the noise generator as they were.
GenerateOutcome(s, checked) ==
    LET a == ChannelTick(s.square_wave_1)
        b == ChannelTick(s.square_wave_2)
        c == ChannelTick(s.triangle_wave)
    IN  IF SquarePanics(a, checked)
        THEN [fault |-> TRUE, value |-> [s EXCEPT !.square_wave_1 = a]]
        ELSE IF SquarePanics(b, checked)
        THEN [fault |-> TRUE,
              value |-> [s EXCEPT !.square_wave_1 = a, !.square_wave_2 = b]]
        ELSE IF TrianglePanics(c, checked)
        THEN [fault |-> TRUE,
              value |-> [s EXCEPT !.square_wave_1 = a, !.square_wave_2 = b,
                                  !.triangle_wave = c]]
        ELSE Ok(SoundGenerate(s))

(***************************************************************************)
(* params.rs: the ROM banks and the trampoline vectors                     *)
(***************************************************************************)
\* Fault injection: read_rom taking the low byte of the word first.
read_rom_LowByteFirst(address) ==
    LET bank == rom_banks[rom_bank_select]
        word == bank[address \div 2]
    IN  IF address % 2 = 0 THEN word % 256 ELSE (word \div 256) % 256

\* SixFiveParams::read_rom: the high byte of the word at an even address, the
\* low byte at an odd one
read_rom(address) ==
    LET bank == rom_banks[rom_bank_select]
        word == bank[address \div 2]
    IN  IF address % 2 = 0 THEN (word \div 256) % 256 ELSE word % 256

\* Fault injection: the trampoline vectors read in the reverse order.
read_trampoline_vector_Reversed(address) ==
    CASE address = 252 -> Ok(BoolToU8(trampoline_vectors[3]))
      [] address = 253 -> Ok(BoolToU8(trampoline_vectors[2]))
      [] address = 254 -> Ok(BoolToU8(trampoline_vectors[1]))
      [] address = 255 -> Ok(BoolToU8(trampoline_vectors[0]))
      [] OTHER -> Panic

\* SixFiveParams::read_trampoline_vector
read_trampoline_vector(address) ==
    CASE address = 252 -> Ok(BoolToU8(trampoline_vectors[0]))
      [] address = 253 -> Ok(BoolToU8(trampoline_vectors[1]))
      [] address = 254 -> Ok(BoolToU8(trampoline_vectors[2]))
      [] address = 255 -> Ok(BoolToU8(trampoline_vectors[3]))
      [] OTHER -> Panic

(***************************************************************************)
(* cpu.rs: Cpu                                                             *)
(***************************************************************************)
\* The Cpu's fields as one value, for the operators below.
Cpu ==
    [accumulator |-> accumulator, instruction_pointer |-> instruction_pointer,
     status_register |-> status_register, clock_running |-> clock_running,
     beats_waiting |-> beats_waiting, cycles_waiting |-> cycles_waiting,
     ram |-> ram, sound |-> sound]

\* Cpu::new
CpuNew ==
    [accumulator |-> 0, instruction_pointer |-> 0,
     status_register |-> <<FALSE, FALSE>>, clock_running |-> FALSE,
     beats_waiting |-> 0, cycles_waiting |-> 0,
     ram |-> [i \in 0..31 |-> 0], sound |-> SoundChipDefault]

\* Fault injection: Cpu::reset that leaves the sound chip as it is.
CpuReset_KeepSound(c) ==
    [c EXCEPT !.instruction_pointer = 0, !.accumulator = 0,
              !.status_register = <<FALSE, FALSE>>,
              !.ram = [i \in 0..31 |-> 0]]

\* Fault injection: reset that also cancels the stall and stops the clock.
CpuReset_ClearsClock(c) ==
    [c EXCEPT !.instruction_pointer = 0, !.accumulator = 0,
              !.status_register = <<FALSE, FALSE>>,
              !.ram = [i \in 0..31 |-> 0],
              !.sound = SoundChipDefault,
              !.cycles_waiting = 0, !.clock_running = FALSE]

\* Cpu::reset
CpuReset(c) ==
    [c EXCEPT !.instruction_pointer = 0, !.accumulator = 0,
              !.status_register = <<FALSE, FALSE>>,
              !.ram = [i \in 0..31 |-> 0],
              !.sound = SoundChipDefault]

\* Fault injection: the negative flag set only above 0x80.
set_status_register_Above(c, value) ==
    [c EXCEPT !.status_register = <<value = 0, value > 128>>]

\* Cpu::set_status_register
set_status_register(c, value) ==
    [c EXCEPT !.status_register = <<value = 0, BitAnd(value, 128) # 0>>]

\* Cpu::read
CpuRead(c, address) ==
    CASE address \in 0..127 -> Ok(read_rom(address))
      [] address \in 128..159 -> Ok(c.ram[address - 128])
      [] address \in 160..175 -> SoundRead(c.sound, address)
      [] address \in 176..239 -> Panic
      [] address \in 240..255 -> read_trampoline_vector(address)

\* Fault injection: Cpu::write that silently ignores a write to ROM.
CpuWrite_RomIgnored(c, address, value) ==
    CASE address \in 0..127 -> [fault |-> FALSE, value |-> c]
      [] address \in 128..159 ->
            [fault |-> FALSE, value |-> [c EXCEPT !.ram[address - 128] = value]]
      [] address \in 160..175 ->
            LET r == SoundWrite(c.sound, address, value)
            IN  [fault |-> r.fault,
                 value |-> IF r.fault THEN c ELSE [c EXCEPT !.sound = r.value]]
      [] address \in 176..239 -> [fault |-> TRUE, value |-> c]
      [] address \in 240..255 -> [fault |-> TRUE, value |-> c]

\* Cpu::write: the CPU after the write, or the panic
CpuWrite(c, address, value) ==
    CASE address \in 0..127 -> [fault |-> TRUE, value |-> c]
      [] address \in 128..159 ->
            [fault |-> FALSE, value |-> [c EXCEPT !.ram[address - 128] = value]]
      [] address \in 160..175 ->
            LET r == SoundWrite(c.sound, address, value)
            IN  [fault |-> r.fault,
                 value |-> IF r.fault THEN c ELSE [c EXCEPT !.sound = r.value]]
      [] address \in 176..239 -> [fault |-> TRUE, value |-> c]
      [] address \in 240..255 -> [fault |-> TRUE, value |-> c]

\* Fault injection: the addressing mode by the last bit alone, also for
\* 0xA0..=0xBF.
AddressingMode_LowBitOnly(opcode) ==
    IF opcode % 2 = 0 THEN "immediate" ELSE "absolute"

\* Cpu::execute, the addressing mode of an opcode: 0xA0..=0xAF always
\* immediate, 0xB0..=0xBF always absolute, else by the opcode's last bit
AddressingMode(opcode) ==
    CASE opcode \in 160..175 -> "immediate"
      [] opcode \in 176..191 -> "absolute"
      [] OTHER -> IF BitAnd(opcode, 1) = 0 THEN "immediate" ELSE "absolute"

\* Cpu::execute, the operand of the instruction at the instruction pointer:
\* [fault, value, arg], arg being the byte that follows the opcode
ResolveOperand(c, opcode) ==
    LET arg == CpuRead(c, WrappingAdd(c.instruction_pointer, 1))
    IN  IF arg.fault THEN [fault |-> TRUE, value |-> 0, arg |-> 0]
        ELSE IF AddressingMode(opcode) = "immediate"
             THEN [fault |-> FALSE, value |-> arg.value, arg |-> arg.value]
             ELSE LET v == CpuRead(c, arg.value)
                  IN  [fault |-> v.fault, value |-> v.value, arg |-> arg.value]

\* Fault injection: the instruction pointer saturating instead of wrapping.
NextInstruction_NoWrap(ip) == IF ip + 2 > 255 THEN 255 ELSE ip + 2

\* Fault injection: the instruction pointer advancing by one byte.
NextInstruction_OneByte(ip) == WrappingAdd(ip, 1)

\* Cpu::execute: instruction_pointer.wrapping_add(2)
NextInstruction(ip) == WrappingAdd(ip, 2)

\* The result of an instruction's effect: the CPU it leaves and whether it panicked.
Done(c) == [fault |-> FALSE, value |-> c]

Faulted(c) == [fault |-> TRUE, value |-> c]

\* Cpu::execute, STOR: write(operand, accumulator), then the status
OpStor(c, operand) ==
    LET w == CpuWrite(c, operand, c.accumulator)
    IN  IF w.fault THEN Faulted(c)
        ELSE Done(set_status_register(w.value, c.accumulator))

\* Cpu::execute, ZERO
OpZero(c, operand) ==
    LET w == CpuWrite(c, operand, 0)
    IN  IF w.fault THEN Faulted(c) ELSE Done(set_status_register(w.value, 0))

\* Fault injection: INC and DEC that stop at 0xFF and 0x00.
OpIncDec_Saturating(c, operand, delta) ==
    LET r == CpuRead(c, operand)
        sum == r.value + delta
        value == IF sum > 255 THEN 255 ELSE IF sum < 0 THEN 0 ELSE sum
        w == CpuWrite(c, operand, value)
    IN  IF r.fault \/ w.fault THEN Faulted(c)
        ELSE Done(set_status_register(w.value, value))

\* Cpu::execute, INC and DEC: delta is +1 or -1
OpIncDec(c, operand, delta) ==
    LET r == CpuRead(c, operand)
        value == (r.value + delta + 256) % 256
        w == CpuWrite(c, operand, value)
    IN  IF r.fault \/ w.fault THEN Faulted(c)
        ELSE Done(set_status_register(w.value, value))

\* Cpu::execute, LSL and LSR: a count of 8 or more panics in a build with
\* overflow checks and is masked to 3 bits in a build without
OpShift(c, operand, left) ==
    LET a == IF left THEN ShlMasked(c.accumulator, operand)
             ELSE ShrMasked(c.accumulator, operand)
        shifted == Done(set_status_register([c EXCEPT !.accumulator = a], a))
    IN  IF operand >= 8 THEN {Faulted(c), shifted} ELSE {shifted}

\* Fault injection: a branch or jump that falls through.
OpBranch_NeverTaken(c, operand, taken) == c

\* Fault injection: SUB that subtracts the operand from the accumulator.
OpSub_Subtracts(c, operand) ==
    LET v == WrappingSub(c.accumulator, operand)
    IN  set_status_register([c EXCEPT !.accumulator = v], v)

\* Cpu::execute, SUB: the status of the accumulator, which stays as it is
OpSub(c, operand) == set_status_register(c, c.accumulator)

\* Fault injection: a branch relative to the next instruction.
OpBranch_Relative(c, operand, taken) ==
    IF taken
    THEN [c EXCEPT !.instruction_pointer = WrappingAdd(@, operand)]
    ELSE c

\* Cpu::execute, a branch: the instruction pointer becomes the operand if taken
OpBranch(c, operand, taken) ==
    IF taken THEN [c EXCEPT !.instruction_pointer = operand] ELSE c

\* Fault injection: the 0xB0 band of AWI addressing other registers than the
\* 0xA0 band.
AwiRegister_BandSplit(opcode) ==
    IF opcode \in 160..175 THEN BitOr(BitAnd(opcode, 15), 160)
    ELSE BitOr(BitAnd(opcode, 7), 168)

\* Cpu::execute, AWI: the sound register an opcode of 0xA0..=0xBF writes
AwiRegister(opcode) == BitOr(BitAnd(opcode, 15), 160)

\* Cpu::execute, AWI
OpAwi(c, opcode, operand) ==
    LET w == SoundWrite(c.sound, AwiRegister(opcode), operand)
    IN  IF w.fault THEN Faulted(c) ELSE Done([c EXCEPT !.sound = w.value])

\* Fault injection: NOOP stalling one tick more than its operand.
OpNoop_OffByOne(c, operand) == [c EXCEPT !.cycles_waiting = WrappingAdd(operand, 1)]

\* Fault injection: BEAT that also stalls for its operand's ticks.
OpBeat_AlsoStalls(c, operand) ==
    [c EXCEPT !.beats_waiting = operand, !.cycles_waiting = operand]

\* Cpu::execute, BEAT
OpBeat(c, operand) == [c EXCEPT !.beats_waiting = operand]

\* Cpu::execute, NOOP
OpNoop(c, operand) == [c EXCEPT !.cycles_waiting = operand]

\* Cpu::execute, the match on the opcode: the set of outcomes of the
\* instruction's effect on a CPU whose instruction pointer is already advanced
ExecuteOp(c, opcode, operand) ==
    LET a == c.accumulator
        acc(v) == {Done(set_status_register([c EXCEPT !.accumulator = v], v))}
    IN  CASE opcode \in {0, 1} -> {Done([c EXCEPT !.clock_running = FALSE])}
          [] opcode \in {16, 17} -> acc(operand)
          [] opcode \in {18, 19} -> {OpStor(c, operand)}
          [] opcode \in {32, 33} -> acc(WrappingAdd(a, operand))
          [] opcode \in {34, 35} -> {Done(set_status_register(c, operand))}
          [] opcode \in {36, 37} -> {Done(OpSub(c, operand))}
          [] opcode \in {38, 39} ->
                {Done(set_status_register(c, WrappingSub(a, operand)))}
          [] opcode \in {48, 49} ->
                {Done(OpBranch(c, operand, c.status_register[1]))}
          [] opcode \in {50, 51} ->
                {Done(OpBranch(c, operand, ~c.status_register[1]))}
          [] opcode \in {52, 53} ->
                {Done(OpBranch(c, operand, c.status_register[2]))}
          [] opcode \in {54, 55} ->
                {Done(OpBranch(c, operand, ~c.status_register[2]))}
          [] opcode \in {64, 65} -> {Done(OpBranch(c, operand, TRUE))}
          [] opcode \in {80, 81} -> acc(BitAnd(a, operand))
          [] opcode \in {82, 83} ->
                {Done(set_status_register(c, BitAnd(a, operand)))}
          [] opcode \in {84, 85} -> acc(BitOr(a, operand))
          [] opcode \in {86, 87} -> acc(BitXor(a, operand))
          [] opcode \in {88, 89} -> OpShift(c, operand, TRUE)
          [] opcode \in {90, 91} -> OpShift(c, operand, FALSE)
          [] opcode \in {92, 93} -> acc(RotateLeft(a, operand))
          [] opcode \in {94, 95} -> acc(RotateRight(a, operand))
          [] opcode \in {96, 97} -> {OpZero(c, operand)}
          [] opcode \in {98, 99} -> {OpIncDec(c, operand, 1)}
          [] opcode \in {100, 101} -> {OpIncDec(c, operand, -1)}
          [] opcode \in 160..191 -> {OpAwi(c, opcode, operand)}
          [] opcode \in {240, 241} -> {Done(OpBeat(c, operand))}
          [] opcode \in {242, 243} -> {Done(OpNoop(c, operand))}
          [] OTHER -> {Done([c EXCEPT !.clock_running = FALSE])}

\* Fault injection: a stalled tick that also advances the instruction pointer.
Stall_AlsoAdvances(c) ==
    [c EXCEPT !.cycles_waiting = @ - 1,
              !.instruction_pointer = WrappingAdd(@, 2)]

\* Cpu::execute, the stalled tick: cycles_waiting -= 1; return
Stall(c) == [c EXCEPT !.cycles_waiting = @ - 1]

\* Cpu::execute: the set of outcomes of one call.  Each outcome holds the CPU
\* the call leaves (value), whether it panicked (fault) and how far it got
\* (stage: the stalled tick, reading the opcode, resolving the operand, the
\* opcode's effect), whether it fetched, and what it decoded (the opcode, the
\* byte after it, the operand).
Execute(c) ==
    IF c.cycles_waiting > 0
    THEN {[fault |-> FALSE, stage |-> "stall", value |-> Stall(c),
           fetched |-> FALSE, opcode |-> 0, arg |-> 0, operand |-> 0]}
    ELSE LET op == CpuRead(c, c.instruction_pointer)
             od == ResolveOperand(c, op.value)
             c1 == [c EXCEPT !.instruction_pointer = NextInstruction(@)]
         IN  IF op.fault
             THEN {[fault |-> TRUE, stage |-> "opcode", value |-> c,
                    fetched |-> TRUE, opcode |-> 0, arg |-> 0, operand |-> 0]}
             ELSE IF od.fault
             THEN {[fault |-> TRUE, stage |-> "operand", value |-> c,
                    fetched |-> TRUE, opcode |-> op.value, arg |-> od.arg,
                    operand |-> 0]}
             ELSE {[fault |-> r.fault, stage |-> "effect", value |-> r.value,
                    fetched |-> TRUE, opcode |-> op.value, arg |-> od.arg,
                    operand |-> od.value] :
                   r \in ExecuteOp(c1, op.value, od.value)}

(***************************************************************************)
(* gui.rs, lib.rs: constants                                               *)
(***************************************************************************)
OVERWRITE_INSTRUCTION_POINTER_VALUES == {0, 16, 32, 48, 64, 80, 96, 112}

\* SixFiveParams::default: four banks of 64 zero words
RomBanksDefault == [b \in 0..3 |-> [i \in 0..63 |-> 0]]

\* A ROM bank holding a program: its bytes, two to a big-endian word as the
\* editor shows them, followed by zero words.
RomBankOf(bytes) ==
    [i \in 0..63 |->
        IF 2 * i + 2 <= Len(bytes) THEN bytes[2 * i + 1] * 256 + bytes[2 * i + 2]
        ELSE 0]

(***************************************************************************)
(* The programs and clock configurations the specifications start from.    *)
(***************************************************************************)
\* Instructions that set up the state an instruction under test acts on:
\* nothing; LOAD 0xFF; LOAD 0x07, STOR 0x80, STOR 0xA3.
Preambles ==
    {<<>>, <<16, 255>>, <<16, 7, 18, 128, 18, 163>>}

\* The bytes that follow the opcode under test: small counts, values with and
\* without bit 7, and addresses in and at the edges of every band of the map.
Args ==
    {0, 1, 2, 7, 8, 42, 127, 128, 129, 159, 160, 163, 175, 176, 239, 240, 251,
     252, 254, 255}

\* One instruction of every opcode after every preamble.
CpuPrograms ==
    {pre \o <<opcode, arg>> : pre \in Preambles, opcode \in Byte, arg \in Args}

\* NOOP 2, AWI3 0x55, STOR to ROM;  LOAD 7, STOR 0x80, AWI15 0xFF, opcode 0x02;
\* LOAD [0xFC], BREQ 0, INC 0x9F, JMP 0xB0.
HostPrograms ==
    {<<242, 2, 163, 85, 18, 0>>,
     <<16, 7, 18, 128, 175, 255, 2, 0>>,
     <<17, 252, 48, 0, 98, 159, 64, 176>>}

\* Instructions that set the status, and the memory, a branch or a memory
\* instruction acts on: nothing; SSR 0x00 (zero); SSR 0x80 (negative);
\* LOAD 0xFF, STOR 0x80, STOR 0xA3, SSR 0x00.
CasePreambles ==
    {<<>>, <<34, 0>>, <<34, 128>>, <<16, 255, 18, 128, 18, 163, 34, 0>>}

\* The branches and JMP; ZERO, INC and DEC.
CaseOpcodes == (48..55) \cup {64, 65} \cup (96..101)

CasePrograms ==
    {pre \o <<opcode, arg>> :
        pre \in CasePreambles, opcode \in CaseOpcodes, arg \in Args}

\* LOAD of every address from 0xB0 up, in absolute mode.
TrampolinePrograms == {<<17, address>> : address \in 176..255}

\* An instruction that reads or writes a sound register: LOAD, STOR, ZERO,
\* INC and DEC of each register's address, and each AWI opcode with the value
\* 0x09.
NotePrograms ==
    {<<opcode, address>> : opcode \in {17, 18, 96, 98, 100}, address \in 160..175}
        \cup {<<opcode, 9>> : opcode \in 160..191}

\* A branch, a jump, or an instruction that is neither, with even and odd
\* bytes after it; the status being (false, false), BRNE and BRGE are taken.
ParityPrograms ==
    {<<opcode, arg>> :
        opcode \in {16, 32, 48, 50, 52, 54, 64, 240},
        arg \in {0, 1, 6, 7, 128, 254}}

\* The end-to-end scenario: LOAD 1; ADD 1; JMP 0.
LoopProgram == <<16, 1, 32, 1, 64, 0>>

\* The contents of banks A to D when each bank holds its own program:
\* A: LOAD 0xAB, ADD 0xCD, JMP 0;
\* B: JMP 3, then from the odd address 3: LOAD 5, LOAD [2], LOAD [1], HALT;
\* C: LOAD [4], STOR 0x80, HALT;
\* D: NOOP 1, LOAD 9, JMP 1.
BankPrograms ==
    <<<<16, 171, 32, 205, 64, 0>>,
      <<64, 3, 17, 16, 5, 17, 2, 17, 1, 0>>,
      <<17, 4, 18, 128, 0, 0>>,
      <<242, 1, 16, 9, 64, 1>>>>

FilledRomBanks == [b \in 0..3 |-> RomBankOf(BankPrograms[b + 1])]

\* NOOP 2; JMP 0: a loop that stalls.
StallProgram == <<242, 2, 64, 0>>

\* <<sample_rate, clock_speed>> with a whole number of samples for each
\* instruction: 1, 2, 3, 2, 3 and 3.
WholeClocks == {<<1, 1>>, <<2, 1>>, <<3, 1>>, <<4, 2>>, <<6, 2>>, <<9, 3>>}

\* <<sample_rate, clock_speed>>
HostClocks == {<<1, 1>>, <<2, 1>>}

\* LOAD 1, ADD 1, JMP 0;  NOOP 2, JMP 0;  LOAD [0], STOR 0x80, JMP 0x80 (the
\* next fetch is from RAM);  STOR to ROM, a panic.
LockPrograms ==
    {LoopProgram, StallProgram, <<17, 0, 18, 128, 64, 128>>, <<18, 0>>}

\* <<cell, word>>: the first cell of the selected bank becomes JMP 0 or HALT.
RomEdits == {<<0, 16384>>, <<0, 0>>}

\* The history record of an operation other than execute(): its name and the
\* instruction pointer it found.
NoOp(name) ==
    [op |-> name, ip |-> instruction_pointer, opcode |-> 0, arg |-> 0,
     operand |-> 0, fault |-> "none"]

NoStall == [open |-> FALSE, n |-> 0, target |-> 0, count |-> 0]

\* The sound chip after value has been written to each of its 16 registers.
SoundFilled(value) ==
    LET fill[n \in 0..16] ==
            IF n = 0 THEN SoundChipDefault
            ELSE SoundWrite(fill[n - 1], 159 + n, value).value
    IN  fill[16]

\* The register states the register specification starts from.
SeededSounds == {SoundChipDefault, SoundFilled(255), SoundFilled(165)}

\* The register writes the register specification applies: any byte to any
\* of the 16 registers.
NoRequest == [register |-> 0, value |-> 0]

RegisterWrites == [register : 160..175, value : Byte]

\* The sound chip after a has been written to register 0 and b to register 3
\* of every channel.
SoundWith(a, b) ==
    LET registers == <<160, 164, 168, 172, 163, 167, 171, 175>>
        set[n \in 0..8] ==
            IF n = 0 THEN SoundChipDefault
            ELSE SoundWrite(set[n - 1], registers[n], IF n <= 4 THEN a ELSE b).value
    IN  set[8]

\* Register 0 values: constant volume 0 and 15; envelope of length 0 and 8;
\* the same with the looping bit: constant volume 15, envelope of length 8.
VolumeModes == {0, 15, 16, 24, 47, 56}

\* Register 3 values: note lengths 0, 1, 2 and 31.
NoteLengths == {0, 8, 16, 248}

VolumeSounds == {SoundWith(a, b) : a \in VolumeModes, b \in NoteLengths}

\* A write to register 0 or 3 of the first square channel or of the noise
\* channel, or none.
VolumeRequests ==
    {NoRequest}
        \cup [register : {160, 172}, value : VolumeModes]
        \cup [register : {163, 175}, value : NoteLengths]

\* <<sample_rate, clock_speed>>: a sixtieth of a second, the unit of the note
\* length, is half a sample or one sample.
VolumeClocks == {<<30, 1>>, <<60, 1>>}

\* The noise shift registers after n generate() calls that returned on each
\* of them, n being at most 32.
NoiseAdvance(registers, n) ==
    LET after[i \in 0..n] ==
            IF i = 0 THEN registers ELSE {NoiseStep(x) : x \in after[i - 1]}
    IN  after[n]

\* The noise shift register after n generate() calls that returned, 32 calls
\* at a time.
NoiseElapsed(shift_register, n) ==
    LET after[i \in 0..(n \div 32)] ==
            IF i = 0 THEN NoiseAdvance({shift_register}, n % 32)
            ELSE UNION {NoiseAdvance({x}, 32) : x \in after[i - 1]}
    IN  CHOOSE x \in after[n \div 32] : TRUE

\* The sound chip after n generate() calls that returned: every channel has
\* ticked n times and the noise generator has stepped to shift_register.
Elapsed(s, n, shift_register) ==
    [square_wave_1 |-> [s.square_wave_1 EXCEPT !.time_since_note = @ + n],
     square_wave_2 |-> [s.square_wave_2 EXCEPT !.time_since_note = @ + n],
     triangle_wave |-> [s.triangle_wave EXCEPT !.time_since_note = @ + n],
     noise |-> [s.noise EXCEPT !.time_since_note = @ + n],
     shift_register |-> shift_register]

\* The sound chip after a has been written to register 1 of every channel and
\* the period p to registers 2 and 3, the note length being 0.
SweepWith(a, p) ==
    LET registers == <<161, 165, 169, 173, 162, 166, 170, 174, 163, 167, 171, 175>>
        value(n) == IF n <= 4 THEN a ELSE IF n <= 8 THEN p % 256 ELSE p \div 256
        set[n \in 0..12] ==
            IF n = 0 THEN SoundChipDefault
            ELSE SoundWrite(set[n - 1], registers[n], value(n)).value
    IN  set[12]

\* Register 1 values: sweep disabled at shift 0; enabled upwards at shift 0,
\* 1 and 7 (the last with shift_speed 7); enabled downwards at shift 0 and 1.
SweepModes == {0, 128, 144, 247, 136, 152}

\* Periods: 0, 1, 1024 and the largest, 2047.
SweepPeriods == {0, 1, 1024, 2047}

\* generate() calls since the last write to register 3: up to the sixth sweep
\* step at one sample a second, where the largest period has doubled five
\* times.
SweepTimes == {0, 119, 359, 599, 718}

\* The sweep disabled never overflows, so every one of these states is
\* reached by calls that returned whatever the build.
SweepSounds ==
    UNION {{Elapsed(SweepWith(a, p), t[1], t[2]) :
               a \in SweepModes, p \in SweepPeriods} :
           t \in {<<n, NoiseElapsed(1, n)>> : n \in SweepTimes}}

\* A write of register 1 or 3 of the first square channel, or none.
SweepRequests ==
    {NoRequest}
        \cup [register : {161}, value : {0, 128, 136}]
        \cup [register : {163}, value : {0, 7}]

\* <<sample_rate, clock_speed>>: one or two samples a second.
SweepClocks == {<<1, 1>>, <<2, 1>>}

\* The register writes made while the noise generator runs: none, or 0xFF to
\* register 0 or to register 2 of the noise channel.
NoiseRequests ==
    {NoRequest, [register |-> 172, value |-> 255],
     [register |-> 174, value |-> 255]}

\* A counted run: execute() calls so far, generate() calls since the sound
\* chip was last constructed, and samples process() handled with the clock
\* running.
RunStart == [execute |-> 0, generate |-> 0, samples |-> 0]

\* The state after SixFive::default and Plugin::initialize, the ROM banks
\* holding one of the contents and one of them selected, the sound chip in one
\* of the states, and the register write, if any, the host will make.
InitState(banks, selects, clocks, sounds, requests) ==
    /\ accumulator = CpuNew.accumulator
    /\ instruction_pointer = CpuNew.instruction_pointer
    /\ status_register = CpuNew.status_register
    /\ clock_running = CpuNew.clock_running
    /\ beats_waiting = CpuNew.beats_waiting
    /\ cycles_waiting = CpuNew.cycles_waiting
    /\ ram = CpuNew.ram
    /\ sound \in sounds
    /\ rom_banks \in banks
    /\ rom_bank_select \in selects
    /\ trampoline_vectors = [i \in 0..3 |-> FALSE]
    /\ \E clock \in clocks : sample_rate = clock[1] /\ clock_speed = clock[2]
    /\ samples_until_execute = 0
    /\ panicked = FALSE
    /\ last = NoOp("init")
    /\ stall = NoStall
    /\ error_stop = FALSE
    /\ request \in requests
    /\ budget = [editor |-> 0, generate |-> 0]
    /\ run = RunStart
    /\ cpu_mutex = "free"
    /\ rom_mutex = "free"
    /\ pc = [audio |-> "start", editor |-> "start"]

\* The same with bank A, the default selection, holding one of the programs.
InitWith(programs, clocks, sounds, requests) ==
    InitState({[RomBanksDefault EXCEPT ![0] = RomBankOf(program)] :
                  program \in programs},
              {0}, clocks, sounds, requests)

\* The actions' assignment of a Cpu value to the Cpu's fields.
SetCpu(c) ==
    /\ accumulator' = c.accumulator
    /\ instruction_pointer' = c.instruction_pointer
    /\ status_register' = c.status_register
    /\ clock_running' = c.clock_running
    /\ beats_waiting' = c.beats_waiting
    /\ cycles_waiting' = c.cycles_waiting
    /\ ram' = c.ram
    /\ sound' = c.sound

(***************************************************************************)
(* lib.rs: SixFive::process, the body of its loop for one sample.  The     *)
(* Process actions are the whole block of one sample, the CPU mutex taken  *)
(* at its start and dropped at its end; the lock-level actions further     *)
(* down take the same block one lock operation at a time.                  *)
(***************************************************************************)
\* The opcodes the match in Cpu::execute has an arm for.
ImplementedOpcodes ==
    {0, 1, 16, 17, 18, 19} \cup (32..39) \cup (48..55) \cup {64, 65}
        \cup (80..101) \cup (160..191) \cup (240..243)

\* History: after a NOOP, its operand, the address that follows it and the
\* execute() calls since that fetched nothing; closed by the next fetch.
StallAfter(out) ==
    IF ~out.fetched THEN [stall EXCEPT !.count = @ + 1]
    ELSE IF ~out.fault /\ out.opcode \in {242, 243}
         THEN [open |-> TRUE, n |-> out.operand,
               target |-> (instruction_pointer + 2) % 256, count |-> 0]
         ELSE [stall EXCEPT !.open = FALSE]

\* History: a panic or an unimplemented opcode has stopped the program.
ErrorStopAfter(out) ==
    error_stop \/ out.fault
        \/ (out.fetched /\ out.opcode \notin ImplementedOpcodes)

\* Fault injection: the countdown raised after execute() but not lowered for
\* the sample that executed.
AfterExecute_NoDecrement(samples) == samples + sample_rate

\* process, after execute(): the countdown is raised by sample_rate /
\* clock_speed and lowered by 1, here in units of 1 / clock_speed samples
AfterExecute(samples) == samples + sample_rate - clock_speed

\* Fault injection: process() executing whether or not the clock runs.
ClockGate_Ignored == TRUE

\* process: `if cpu.clock_running`
ClockGate == clock_running

\* The clock runs and the countdown has expired: execute() is called, then the
\* countdown is raised by sample_rate / clock_speed and lowered by 1.  A panic
\* inside execute() leaves the countdown alone and poisons the mutex.
ExecuteCall ==
    /\ ~panicked
    /\ ClockGate
    /\ samples_until_execute <= 0
    /\ \E out \in Execute(Cpu) :
          /\ SetCpu(out.value)
          /\ panicked' = out.fault
          /\ samples_until_execute' =
                IF out.fault THEN samples_until_execute
                ELSE AfterExecute(samples_until_execute)
          /\ last' = [op |-> IF out.fetched THEN "fetch" ELSE "wait",
                      ip |-> instruction_pointer, opcode |-> out.opcode,
                      arg |-> out.arg, operand |-> out.operand,
                      fault |-> IF out.fault THEN out.stage ELSE "none"]
          /\ stall' = StallAfter(out)
          /\ error_stop' = ErrorStopAfter(out)
    /\ UNCHANGED <<param_vars, request, budget>>

ProcessExecute == ExecuteCall /\ UNCHANGED <<run, lock_vars>>

\* The same in a counted run.
ProcessExecuteCounted ==
    /\ run.execute < MaxExecute
    /\ ExecuteCall
    /\ run' = [run EXCEPT !.execute = @ + 1, !.samples = @ + 1]
    /\ UNCHANGED lock_vars

\* The clock runs and the countdown has not expired.
CountdownSample ==
    /\ ~panicked
    /\ ClockGate
    /\ samples_until_execute > 0
    /\ samples_until_execute' = samples_until_execute - clock_speed
    /\ last' = NoOp("countdown")
    /\ UNCHANGED <<cpu_vars, param_vars, panicked, stall, error_stop, request,
                   budget>>

ProcessCountdown == CountdownSample /\ UNCHANGED <<run, lock_vars>>

\* The same in a counted run.
ProcessCountdownCounted ==
    /\ CountdownSample
    /\ run' = [run EXCEPT !.samples = @ + 1]
    /\ UNCHANGED lock_vars

\* The clock does not run: the countdown is held at 0.
IdleSample ==
    /\ ~panicked
    /\ ~ClockGate
    /\ samples_until_execute' = 0
    /\ last' = NoOp("idle")
    /\ UNCHANGED <<cpu_vars, param_vars, panicked, stall, error_stop, request,
                   budget>>

ProcessIdle == IdleSample /\ UNCHANGED <<run, lock_vars>>

(***************************************************************************)
(* gui.rs: the editor's buttons; lib.rs: Plugin::reset                     *)
(***************************************************************************)
EditorAction(name) ==
    /\ ~panicked
    /\ budget.editor < MaxEditorActions
    /\ budget' = [budget EXCEPT !.editor = @ + 1]
    /\ last' = NoOp(name)
    /\ UNCHANGED <<panicked, samples_until_execute, request, lock_vars>>

\* The reset button, and Plugin::reset: cpu.reset()
Reset ==
    /\ EditorAction("reset")
    /\ SetCpu(CpuReset(Cpu))
    /\ stall' = NoStall
    /\ error_stop' = FALSE
    /\ run' = [run EXCEPT !.generate = 0]
    /\ UNCHANGED param_vars

\* The play button: cpu.clock_running = true
Play ==
    /\ EditorAction("play")
    /\ SetCpu([Cpu EXCEPT !.clock_running = TRUE])
    /\ UNCHANGED <<param_vars, stall, error_stop, run>>

\* The stop button: cpu.reset(); cpu.clock_running = false
Stop ==
    /\ EditorAction("stop")
    /\ SetCpu([CpuReset(Cpu) EXCEPT !.clock_running = FALSE])
    /\ stall' = NoStall
    /\ error_stop' = FALSE
    /\ run' = [run EXCEPT !.generate = 0]
    /\ UNCHANGED param_vars

\* The pause button: cpu.clock_running = false
Pause ==
    /\ EditorAction("pause")
    /\ SetCpu([Cpu EXCEPT !.clock_running = FALSE])
    /\ UNCHANGED <<param_vars, stall, error_stop, run>>

\* An overwrite button: cpu.instruction_pointer = i; cpu.clock_running = true
OverwriteInstructionPointer ==
    /\ EditorAction("overwrite")
    /\ \E i \in OVERWRITE_INSTRUCTION_POINTER_VALUES :
          SetCpu([Cpu EXCEPT !.instruction_pointer = i, !.clock_running = TRUE])
    /\ stall' = NoStall
    /\ UNCHANGED <<param_vars, error_stop, run>>

\* A trampoline vector button: the parameter is set to its negation
ToggleTrampolineVector ==
    /\ EditorAction("toggle")
    /\ \E i \in 0..3 :
          trampoline_vectors' = [trampoline_vectors EXCEPT ![i] = ~@]
    /\ UNCHANGED <<cpu_vars, rom_banks, rom_bank_select, clock_speed,
                   sample_rate, stall, error_stop, run>>

\* The ROM bank combo box: the parameter is set to the chosen bank
SelectRomBank ==
    /\ EditorAction("bank")
    /\ \E i \in 0..3 : i # rom_bank_select /\ rom_bank_select' = i
    /\ UNCHANGED <<cpu_vars, rom_banks, trampoline_vectors, clock_speed,
                   sample_rate, stall, error_stop, run>>

(***************************************************************************)
(* sound.rs: the sound chip's own interface                                *)
(***************************************************************************)
\* The builds that differ on this chip: with and without overflow checks when
\* a pitched channel sweeps, otherwise one.
Builds(s) ==
    IF s.square_wave_1.shift_enabled \/ s.square_wave_2.shift_enabled
           \/ s.triangle_wave.shift_enabled
    THEN BOOLEAN
    ELSE {TRUE}

\* SoundChip::generate
GenerateCall ==
    /\ ~panicked
    /\ \E out \in {GenerateOutcome(sound, checked) :
                      checked \in Builds(sound)} :
          /\ sound' = out.value
          /\ panicked' = out.fault
          /\ last' = [NoOp("generate") EXCEPT
                         !.fault = IF out.fault THEN "effect" ELSE "none"]
    /\ UNCHANGED <<accumulator, instruction_pointer, status_register,
                   clock_running, beats_waiting, cycles_waiting, ram,
                   param_vars, samples_until_execute, stall, error_stop,
                   request, lock_vars>>

Generate ==
    /\ budget.generate < MaxGenerate
    /\ budget' = [budget EXCEPT !.generate = @ + 1]
    /\ GenerateCall
    /\ UNCHANGED run

\* The same in a counted run.
GenerateCounted ==
    /\ run.generate < MaxNoiseCalls
    /\ run' = [run EXCEPT !.generate = @ + 1]
    /\ GenerateCall
    /\ UNCHANGED budget

\* SoundChip::write(register, value), applied to the requested write
WriteRegister ==
    /\ ~panicked
    /\ request # NoRequest
    /\ LET w == SoundWrite(sound, request.register, request.value)
       IN  /\ sound' = w.value
           /\ panicked' = w.fault
           /\ last' = [op |-> "write", ip |-> instruction_pointer,
                       opcode |-> 0, arg |-> request.register,
                       operand |-> request.value,
                       fault |-> IF w.fault THEN "effect" ELSE "none"]
    /\ request' = NoRequest
    /\ UNCHANGED <<accumulator, instruction_pointer, status_register,
                   clock_running, beats_waiting, cycles_waiting, ram,
                   param_vars, samples_until_execute, stall, error_stop,
                   budget, run, lock_vars>>

(***************************************************************************)
(* The two threads, one lock operation at a time.  The audio thread runs   *)
(* process() (lib.rs), the editor thread one frame of draw_editor          *)
(* (gui.rs).  A mutex holds "free" or the thread that holds it.            *)
(***************************************************************************)
\* Everything but the mutexes and the threads' positions.
work_vars == <<cpu_vars, param_vars, samples_until_execute, panicked, last,
               stall, error_stop, request, budget, run>>

\* Fault injection: lock() returning although another thread holds the mutex.
MutexFree_Ignored(mutex) == TRUE

\* Mutex::lock returns once no thread holds the mutex
MutexFree(mutex) == mutex = "free"

\* Fault injection: a guard that goes out of scope without unlocking.
GuardDropped_Leaked(mutex) == mutex

\* A MutexGuard going out of scope unlocks its mutex
GuardDropped(mutex) == "free"

AudioTo(where) == pc' = [pc EXCEPT !.audio = where]

EditorTo(where) == pc' = [pc EXCEPT !.editor = where]

\* process: `let mut cpu = self.cpu.lock().unwrap()`
AudioLock ==
    /\ ~panicked
    /\ pc.audio = "start"
    /\ MutexFree(cpu_mutex)
    /\ cpu_mutex' = "audio"
    /\ AudioTo("locked")
    /\ UNCHANGED <<work_vars, rom_mutex>>

\* process and execute(): the sample calls execute(), and execute() fetches
Fetching == ClockGate /\ samples_until_execute <= 0 /\ cycles_waiting = 0

\* execute(): the address of the byte it reads next, the opcode's or the
\* argument's
FetchAddress ==
    IF pc.audio = "locked" THEN instruction_pointer
    ELSE WrappingAdd(instruction_pointer, 1)

\* Cpu::read of a ROM address, read_rom: `self.rom_banks.lock().unwrap()`
AudioReadRom ==
    /\ ~panicked
    /\ pc.audio \in {"locked", "opcode"}
    /\ Fetching
    /\ FetchAddress < 128
    /\ MutexFree(rom_mutex)
    /\ rom_mutex' = "audio"
    /\ AudioTo(IF pc.audio = "locked" THEN "read_opcode" ELSE "read_arg")
    /\ UNCHANGED <<work_vars, cpu_mutex>>

\* read_rom returns: its guard on the ROM banks is dropped
AudioReadDone ==
    /\ ~panicked
    /\ pc.audio \in {"read_opcode", "read_arg"}
    /\ rom_mutex' = GuardDropped(rom_mutex)
    /\ AudioTo(IF pc.audio = "read_opcode" THEN "opcode" ELSE "fetched")
    /\ UNCHANGED <<work_vars, cpu_mutex>>

\* Cpu::read of an address outside the ROM: no mutex is taken
AudioReadOther ==
    /\ ~panicked
    /\ pc.audio \in {"locked", "opcode"}
    /\ Fetching
    /\ FetchAddress >= 128
    /\ AudioTo(IF pc.audio = "locked" THEN "opcode" ELSE "fetched")
    /\ UNCHANGED <<work_vars, cpu_mutex, rom_mutex>>

\* execute() with both bytes read, or with wait cycles left: its effect, the
\* read of an absolute operand included, and the countdown's update
AudioExecute ==
    /\ \/ pc.audio = "fetched"
       \/ pc.audio = "locked" /\ cycles_waiting > 0
    /\ MutexFree(rom_mutex)
    /\ ExecuteCall
    /\ AudioTo("done")
    /\ UNCHANGED <<run, cpu_mutex, rom_mutex>>

\* process: the countdown has not expired
AudioCountdown ==
    /\ pc.audio = "locked"
    /\ CountdownSample
    /\ AudioTo("done")
    /\ UNCHANGED <<run, cpu_mutex, rom_mutex>>

\* process: the clock does not run
AudioIdle ==
    /\ pc.audio = "locked"
    /\ IdleSample
    /\ AudioTo("done")
    /\ UNCHANGED <<run, cpu_mutex, rom_mutex>>

\* process: the end of the sample's block drops the guard on the CPU
AudioUnlock ==
    /\ ~panicked
    /\ pc.audio = "done"
    /\ cpu_mutex' = GuardDropped(cpu_mutex)
    /\ AudioTo("start")
    /\ UNCHANGED <<work_vars, rom_mutex>>

\* Plugin::reset, called by the host between process() calls:
\* `self.cpu.lock().unwrap().reset()`, the guard dropped with the statement
PluginReset ==
    /\ ~panicked
    /\ pc.audio = "start"
    /\ MutexFree(cpu_mutex)
    /\ SetCpu(CpuReset(Cpu))
    /\ last' = NoOp("plugin_reset")
    /\ stall' = NoStall
    /\ error_stop' = FALSE
    /\ run' = [run EXCEPT !.generate = 0]
    /\ UNCHANGED <<param_vars, samples_until_execute, panicked, request, budget,
                   lock_vars>>

\* draw_editor: `let mut cpu = cpu.lock().unwrap()`
EditorLock ==
    /\ ~panicked
    /\ pc.editor = "start"
    /\ MutexFree(cpu_mutex)
    /\ cpu_mutex' = "editor"
    /\ EditorTo("rom")
    /\ UNCHANGED <<work_vars, rom_mutex>>

\* draw_rom, for one of the 64 cells: `params.rom_banks.lock().unwrap()`,
\* the guard living through the call of draw_rom_location
EditorRomLock ==
    /\ ~panicked
    /\ pc.editor = "rom"
    /\ MutexFree(rom_mutex)
    /\ rom_mutex' = "editor"
    /\ EditorTo("cell")
    /\ UNCHANGED <<work_vars, cpu_mutex>>

\* draw_rom_location: Enter or Tab in the cell's text field stores its value
EditorRomEdit ==
    /\ pc.editor = "cell"
    /\ EditorAction("edit")
    /\ \E edit \in RomEdits :
          rom_banks' =
              [rom_banks EXCEPT ![rom_bank_select][edit[1]] = edit[2]]
    /\ UNCHANGED <<cpu_vars, rom_bank_select, trampoline_vectors, clock_speed,
                   sample_rate, stall, error_stop, run>>

\* draw_rom_location returns: the guard on the ROM banks is dropped
EditorRomUnlock ==
    /\ ~panicked
    /\ pc.editor = "cell"
    /\ rom_mutex' = GuardDropped(rom_mutex)
    /\ EditorTo("buttons")
    /\ UNCHANGED <<work_vars, cpu_mutex>>

\* The buttons of draw_instruction_pointer and
\* draw_overwrite_instruction_pointer, drawn with the guard on the CPU.
PressReset == pc.editor = "buttons" /\ Reset

PressPlay == pc.editor = "buttons" /\ Play

PressStop == pc.editor = "buttons" /\ Stop

PressPause == pc.editor = "buttons" /\ Pause

PressOverwrite == pc.editor = "buttons" /\ OverwriteInstructionPointer

\* The trampoline buttons and the bank combo box call the parameter setter
\* inside the same frame, with the guard on the CPU.
PressToggle == pc.editor = "buttons" /\ ToggleTrampolineVector

PressBank == pc.editor = "buttons" /\ SelectRomBank

\* draw_editor: the end of the frame's closure drops the guard on the CPU
EditorUnlock ==
    /\ ~panicked
    /\ pc.editor = "buttons"
    /\ cpu_mutex' = GuardDropped(cpu_mutex)
    /\ EditorTo("start")
    /\ UNCHANGED <<work_vars, rom_mutex>>

(***************************************************************************)
(* Specifications                                                          *)
(***************************************************************************)
\* The CPU runs one program; the editor only presses play.
Init == InitWith(CpuPrograms, {<<1, 1>>}, {SoundChipDefault}, {NoRequest})

Next == Play \/ ProcessExecute

Spec == Init /\ [][Next]_vars

\* The plugin with its editor: every button, both process() paths, generate().
InitHost == InitWith(HostPrograms, HostClocks, {SoundChipDefault}, {NoRequest})

NextHost ==
    \/ ProcessExecute
    \/ ProcessCountdown
    \/ ProcessIdle
    \/ Reset
    \/ Play
    \/ Stop
    \/ Pause
    \/ OverwriteInstructionPointer
    \/ ToggleTrampolineVector
    \/ Generate

SpecHost == InitHost /\ [][NextHost]_vars

\* The sound chip's register interface alone: a write of any byte to any
\* register of a seeded chip, before, between or after generate() calls.
InitRegs == InitWith({<<>>}, {<<1, 1>>}, SeededSounds, RegisterWrites)

NextRegs == WriteRegister \/ Generate

SpecRegs == InitRegs /\ [][NextRegs]_vars

\* The noise generator over its whole cycle: generate() calls counted since
\* the last reset(), with a register write and resets at any point.
InitNoise == InitWith({<<>>}, {<<1, 1>>}, {SoundChipDefault}, NoiseRequests)

NextNoise == GenerateCounted \/ WriteRegister \/ Reset

SpecNoise == InitNoise /\ [][NextNoise]_vars

\* The end-to-end scenario: the loop program from ip = 0 with no wait
\* cycles, its execute() calls counted.
InitLoop == InitWith({LoopProgram}, {<<1, 1>>}, {SoundChipDefault}, {NoRequest})

NextLoop == Play \/ ProcessExecuteCounted

SpecLoop == InitLoop /\ [][NextLoop]_vars

\* Four filled ROM banks, any of them selected at the start and the bank
\* combo box used while the program runs.
InitRom ==
    InitState({FilledRomBanks}, 0..3, {<<1, 1>>}, {SoundChipDefault}, {NoRequest})

NextRom == Play \/ SelectRomBank \/ ProcessExecute

SpecRom == InitRom /\ [][NextRom]_vars

\* The instruction-rate gate: a program that never halts, every sample
\* process() handles with the clock running counted.
InitClock ==
    InitWith({LoopProgram, StallProgram}, WholeClocks, {SoundChipDefault},
             {NoRequest})

NextClock ==
    \/ Play
    \/ ProcessIdle
    \/ ProcessExecuteCounted
    \/ ProcessCountdownCounted

SpecClock == InitClock /\ [][NextClock]_vars

\* The channels' volume: a chip whose channels play a note, a register write
\* and generate() calls, while the CPU is started and executes the HALT of an
\* empty ROM.
InitVolume == InitWith({<<>>}, VolumeClocks, VolumeSounds, VolumeRequests)

NextVolume == WriteRegister \/ Generate \/ Play \/ ProcessExecute

SpecVolume == InitVolume /\ [][NextVolume]_vars

\* The CPU runs a branch or a memory instruction in a chosen status.
InitCases == InitWith(CasePrograms, {<<1, 1>>}, {SoundChipDefault}, {NoRequest})

NextCases == Play \/ ProcessExecute

SpecCases == InitCases /\ [][NextCases]_vars

\* The CPU loads from the top of the address space while the editor toggles
\* trampoline vectors.
InitTrampoline ==
    InitWith(TrampolinePrograms, {<<1, 1>>}, {SoundChipDefault}, {NoRequest})

NextTrampoline == Play \/ ToggleTrampolineVector \/ ProcessExecute

SpecTrampoline == InitTrampoline /\ [][NextTrampoline]_vars

\* The CPU accesses a sound register between generate() calls and resets.
InitNote == InitWith(NotePrograms, {<<1, 1>>}, {SoundChipDefault}, {NoRequest})

NextNote == Play \/ Reset \/ ProcessExecute \/ Generate

SpecNote == InitNote /\ [][NextNote]_vars

\* The period sweep: a chip whose channels have played for minutes, a register
\* write and generate() calls.
InitSweep == InitWith({<<>>}, SweepClocks, SweepSounds, SweepRequests)

NextSweep == WriteRegister \/ Generate

SpecSweep == InitSweep /\ [][NextSweep]_vars

\* The CPU runs a jump or another instruction while the editor presses play,
\* reset, stop and the overwrite buttons.
InitParity ==
    InitWith(ParityPrograms, {<<1, 1>>}, {SoundChipDefault}, {NoRequest})

NextParity ==
    Play \/ Reset \/ Stop \/ OverwriteInstructionPointer \/ ProcessExecute

SpecParity == InitParity /\ [][NextParity]_vars

\* The audio thread and the editor thread, interleaved at their lock
\* operations.
InitLocks == InitWith(LockPrograms, HostClocks, {SoundChipDefault}, {NoRequest})

NextLocks ==
    \/ AudioLock
    \/ AudioReadRom
    \/ AudioReadDone
    \/ AudioReadOther
    \/ AudioExecute
    \/ AudioCountdown
    \/ AudioIdle
    \/ AudioUnlock
    \/ PluginReset
    \/ EditorLock
    \/ EditorRomLock
    \/ EditorRomEdit
    \/ EditorRomUnlock
    \/ PressReset
    \/ PressPlay
    \/ PressStop
    \/ PressPause
    \/ PressOverwrite
    \/ PressToggle
    \/ PressBank
    \/ EditorUnlock

SpecLocks == InitLocks /\ [][NextLocks]_vars

(***************************************************************************)
(* Properties                                                              *)
(***************************************************************************)
\* The step is an execute() call that fetched and did not panic.
FetchedStep == last'.op = "fetch" /\ last'.fault = "none"

\* The instruction is JMP, or a branch whose condition holds in the status.
JumpTaken(opcode, status) ==
    \/ opcode \in {64, 65}
    \/ opcode \in {48, 49} /\ status[1]
    \/ opcode \in {50, 51} /\ ~status[1]
    \/ opcode \in {52, 53} /\ status[2]
    \/ opcode \in {54, 55} /\ ~status[2]

\* The operand the addressing rule gives the opcode at the instruction pointer
\* of the current state: the byte after it, or the byte at that address.
ByteAfterOpcode == CpuRead(Cpu, (instruction_pointer + 1) % 256).value

OperandByRule(opcode) ==
    IF opcode \in 160..175 THEN ByteAfterOpcode
    ELSE IF opcode \in 176..191 THEN CpuRead(Cpu, ByteAfterOpcode).value
    ELSE IF opcode % 2 = 0 THEN ByteAfterOpcode
    ELSE CpuRead(Cpu, ByteAfterOpcode).value

\* C1: every execute() call that fetches and completes without a fault leaves
\* the instruction pointer at (ip_before + 2) mod 256, unless the opcode is JMP
\* or a branch whose condition holds, when it leaves it at the operand.
C1_InstructionPointerAdvance ==
    [][FetchedStep =>
          instruction_pointer' =
              IF JumpTaken(last'.opcode, status_register) THEN last'.operand
              ELSE (instruction_pointer + 2) % 256]_vars

\* An instruction fetched at 0xFE has left the instruction pointer at 0x00.
C1_Witness ==
    /\ last.op = "fetch" /\ last.fault = "none"
    /\ last.ip = 254
    /\ instruction_pointer = 0

\* C2: an execute() call entered with cycles_waiting > 0 fetches nothing,
\* lowers cycles_waiting by exactly 1 and changes nothing else.
C2_StalledTick ==
    [][(last'.op \in {"fetch", "wait"} /\ cycles_waiting > 0) =>
          /\ last'.op = "wait"
          /\ cycles_waiting' = cycles_waiting - 1
          /\ UNCHANGED <<instruction_pointer, accumulator, status_register,
                         clock_running, beats_waiting, ram, sound>>]_vars

\* A stalled tick has run and another is still due.
C2_Witness == last.op = "wait" /\ cycles_waiting > 0 /\ stall.count > 0

\* C3: NOOP with operand n sets cycles_waiting to n; exactly the next n
\* execute() calls fetch nothing and the call after them fetches at the address
\* that follows the NOOP; nothing but NOOP ever raises cycles_waiting.
C3_NoopStall ==
    [][/\ (FetchedStep /\ last'.opcode \in {242, 243}) =>
              cycles_waiting' = last'.operand
       /\ (stall.open /\ last'.op = "wait") => stall.count < stall.n
       /\ (stall.open /\ last'.op = "fetch") =>
              (stall.count = stall.n /\ last'.ip = stall.target)
       /\ (cycles_waiting' > cycles_waiting) =>
              (FetchedStep /\ last'.opcode \in {242, 243})]_vars

\* After NOOP 7 and seven stalled ticks the instruction after it was fetched.
C3_Witness ==
    /\ ~stall.open /\ stall.n = 7 /\ stall.count = 7
    /\ last.op = "fetch" /\ last.ip = stall.target

\* C4: the operand is the byte after the opcode for opcodes 0xA0-0xAF and for
\* even opcodes outside 0xA0-0xBF, and the byte read at the address that byte
\* names for opcodes 0xB0-0xBF and for odd opcodes outside 0xA0-0xBF; LOAD
\* leaves that operand in the accumulator.
C4_OperandResolution ==
    [][FetchedStep =>
          /\ last'.operand = OperandByRule(last'.opcode)
          /\ last'.opcode \in {16, 17} =>
                accumulator' = OperandByRule(last'.opcode)
          /\ (last'.opcode = 16 /\ instruction_pointer = 0
                  /\ ByteAfterOpcode = 42) =>
                (accumulator' = 42 /\ instruction_pointer' = 2)
          /\ (last'.opcode = 17 /\ ByteAfterOpcode = 128 /\ ram[0] = 7) =>
                accumulator' = 7]_vars

\* LOAD 0x11 of address 0x80 has loaded the 0x07 stored there.
C4_Witness ==
    /\ last.op = "fetch" /\ last.fault = "none"
    /\ last.opcode = 17 /\ last.arg = 128
    /\ ram[0] = 7 /\ accumulator = 7

\* The byte an instruction that writes memory hands to write().
WrittenValue(opcode, address) ==
    CASE opcode \in {18, 19} -> accumulator
      [] opcode \in {96, 97} -> 0
      [] opcode \in {98, 99} -> (CpuRead(Cpu, address).value + 1) % 256
      [] opcode \in {100, 101} -> (CpuRead(Cpu, address).value + 255) % 256

\* C5: write(addr, v) with addr outside 0x80-0xAF raises a fault and changes no
\* RAM byte, sound register or ROM word; with addr in 0x80-0x9F it sets exactly
\* RAM[addr - 0x80] to v.  (STOR, ZERO, INC and DEC call write with the operand
\* as addr.)
C5_WriteTargets ==
    [][(last'.op = "fetch" /\ last'.fault \in {"none", "effect"}
            /\ last'.opcode \in {18, 19, 96, 97, 98, 99, 100, 101}) =>
          LET addr == last'.operand
          IN  /\ addr \notin 128..175 =>
                    /\ last'.fault = "effect" /\ panicked'
                    /\ UNCHANGED <<ram, sound, rom_banks>>
              /\ addr \in 128..159 =>
                    /\ last'.fault = "none"
                    /\ ram' = [ram EXCEPT ![addr - 128] =
                                        WrittenValue(last'.opcode, addr)]
                    /\ UNCHANGED <<sound, rom_banks>>]_vars

\* STOR to the ROM address 0x00 has faulted.
C5_Witness ==
    /\ last.op = "fetch" /\ last.opcode = 18 /\ last.operand = 0
    /\ last.fault = "effect" /\ panicked

\* An execute() call has hit an illegal read or write target.
MemoryFault ==
    last.op = "fetch" /\ last.fault # "none" /\ last.opcode \notin 88..91

\* C6: an execute() call that hits a memory fault ends as an unimplemented
\* opcode does: clock_running is false and the audio thread has not panicked.
C6_FaultHalts == MemoryFault => (~clock_running /\ ~panicked)

\* The step is an execute() call.
ExecuteStep == last'.op \in {"fetch", "wait"}

C8_ResetDefaults ==
    last.op \in {"reset", "stop"} =>
        /\ accumulator = 0
        /\ instruction_pointer = 0
        /\ status_register = <<FALSE, FALSE>>
        /\ \A i \in 0..31 : ram[i] = 0
        /\ \A register \in 160..175 : SoundRead(sound, register) = Ok(0)
        /\ sound.square_wave_1.time_since_note = 0
        /\ sound.square_wave_2.time_since_note = 0
        /\ sound.triangle_wave.time_since_note = 0
        /\ sound.noise.time_since_note = 0
        /\ sound.shift_register = 1

\* reset() after LOAD 7, STOR 0x80, AWI15 0xFF and an unimplemented opcode
\* have run and generate() has been called.
C8_Witness ==
    /\ last.op = "reset" /\ last.ip = 8
    /\ read_rom(0) = 16 /\ read_rom(4) = 175
    /\ budget.generate > 0
    /\ instruction_pointer = 0

\* C9: a byte written to any of a channel's four registers is the byte read
\* back from it, and generate(), which advances time_since_note, changes no
\* register's read value.
C9_RegisterRoundTrip ==
    [][/\ (last'.op = "write" /\ last'.fault = "none") =>
              SoundRead(sound', last'.arg) = Ok(last'.operand)
       /\ last'.op = "write" => last'.fault = "none"
       /\ last'.op = "generate" =>
              \A register \in 160..175 :
                  SoundRead(sound', register) = SoundRead(sound, register)]_vars

\* 0xFF written to register 3 of the noise channel after time has passed:
\* all of period's high bits and of the note length are set.
C9_Witness ==
    /\ last.op = "write" /\ last.arg = 175 /\ last.operand = 255
    /\ sound.noise.period \div 256 = 7 /\ sound.noise.note_length = 31
    /\ budget.generate > 0
    /\ sound.square_wave_1.time_since_note > 0

\* C10: opcode 0xA0+i writes the byte after it, and opcode 0xB0+i the byte at
\* the address after it, into sound register i, which then reads as that
\* operand at address 0xA0+i; accumulator and status are unchanged.
C10_AwiWritesRegister ==
    [][(FetchedStep /\ last'.opcode \in 160..191) =>
          LET i == last'.opcode % 16
              operand == IF last'.opcode \in 160..175 THEN ByteAfterOpcode
                         ELSE CpuRead(Cpu, ByteAfterOpcode).value
          IN  /\ SoundRead(sound', 160 + i) = Ok(operand)
              /\ accumulator' = accumulator
              /\ status_register' = status_register]_vars

\* Opcode 0xB3 with address 0x80 has written the 0x07 stored there to
\* register 3.
C10_Witness ==
    /\ last.op = "fetch" /\ last.fault = "none"
    /\ last.opcode = 179 /\ last.arg = 128 /\ last.operand = 7
    /\ SoundRead(sound, 163) = Ok(7)

\* C11: from seed 1 the noise shift register is never 0 and never exceeds 15
\* bits; counted from the last reset() it is back at 1 after exactly 32767
\* generate() calls and at no call before, so that the 32767 states before the
\* return, all among the 32767 nonzero 15-bit values, are pairwise distinct;
\* its value after a given number of calls (16384, 8192, ... 2, 16385, ... 3,
\* 1) is the same whatever register writes and resets came in between.
C11_NoiseCycle ==
    [][LET sr == sound'.shift_register
           n == run'.generate
       IN  /\ sr \in 1..32767
           /\ (sr = 1) <=> (n % 32767 = 0)
           /\ n = 1 => sr = 16384
           /\ n = 2 => sr = 8192
           /\ n = 14 => sr = 2
           /\ n = 15 => sr = 16385
           /\ n = 100 => sr = 24618
           /\ n = 32766 => sr = 3
           /\ last'.op = "write" => sr = sound.shift_register]_vars

\* After a reset, 32767 generate() calls and a write to a noise register, the
\* shift register is back at its seed.
C11_Witness ==
    /\ run.generate = 32767 /\ sound.shift_register = 1
    /\ budget.editor > 0
    /\ SoundRead(sound, 172) = Ok(255)

\* C12, as stated: running LOAD 1; ADD 1; JMP 0 never halts, keeps the
\* instruction pointer in {0, 2, 4}, and the accumulator counts up 1, 2, 3,
\* ...: the k-th ADD leaves it at k + 1.
C12_AccumulatorCounts ==
    run.execute > 0 =>
        /\ clock_running /\ ~panicked
        /\ instruction_pointer \in {0, 2, 4}
        /\ (last.op = "fetch" /\ last.opcode = 32) =>
               accumulator = 1 + (run.execute + 1) \div 3

\* C12, amended: over the 100 execute() calls the program never halts, the
\* instruction pointer cycles 2, 4, 0 and the accumulator cycles 1, 2, 2: LOAD
\* sets it back to 1 on every pass, so it never reaches 3.
C12_LoopRuns ==
    run.execute > 0 =>
        /\ clock_running /\ ~panicked /\ cycles_waiting = 0
        /\ run.execute % 3 = 1 => (accumulator = 1 /\ instruction_pointer = 2)
        /\ run.execute % 3 = 2 => (accumulator = 2 /\ instruction_pointer = 4)
        /\ run.execute % 3 = 0 => (accumulator = 2 /\ instruction_pointer = 0)

\* The 100th execute() call, a LOAD, has run.
C12_Witness ==
    /\ run.execute = 100
    /\ last.op = "fetch" /\ last.opcode = 16
    /\ accumulator = 1 /\ instruction_pointer = 2 /\ clock_running

\* The step is an execute() call that read its opcode; for an odd opcode the
\* read of the operand may then have failed.
DecodedStep == last'.op = "fetch" /\ last'.fault # "opcode"

\* C13: an execute() call that fetches opcode 0x00 or 0x01 leaves
\* clock_running false and the accumulator, the status, the RAM and the sound
\* registers as they were, whatever byte follows the opcode.
C13_HaltStops ==
    [][(DecodedStep /\ last'.opcode \in {0, 1}) =>
          /\ ~clock_running'
          /\ UNCHANGED <<accumulator, status_register, ram, sound>>]_vars

\* C14: an execute() call that fetches an opcode without an entry in the
\* instruction table leaves clock_running false and the accumulator, the
\* status, cycles_waiting, the RAM and the sound registers as they were,
\* whether the opcode is even or odd and whatever byte follows it.
C14_UnimplementedStops ==
    [][(DecodedStep /\ last'.opcode \notin ImplementedOpcodes) =>
          /\ ~clock_running'
          /\ UNCHANGED <<accumulator, status_register, cycles_waiting, ram,
                         sound>>]_vars

\* The status (zero, negative) of a byte.
StatusOf(value) == <<value = 0, value >= 128>>

\* C15: ADD leaves the accumulator at (A + operand) mod 256 and the status
\* that of the result; A = 0xFF and operand 0x02 give A = 0x01, zero false,
\* negative false.
C15_AddWraps ==
    [][(FetchedStep /\ last'.opcode \in {32, 33}) =>
          LET operand == OperandByRule(last'.opcode)
          IN  /\ accumulator' = (accumulator + operand) % 256
              /\ status_register' = StatusOf(accumulator')
              /\ (accumulator = 255 /\ operand = 2) =>
                     (accumulator' = 1 /\ status_register' = <<FALSE, FALSE>>)]_vars

\* ADD 2 after LOAD 0xFF has left 0x01 in the accumulator.
C15_Witness ==
    /\ last.op = "fetch" /\ last.fault = "none"
    /\ last.opcode = 32 /\ last.operand = 2
    /\ read_rom(0) = 16 /\ read_rom(1) = 255
    /\ accumulator = 1 /\ status_register = <<FALSE, FALSE>>

\* C16: CMP leaves the accumulator as it was and the status that of
\* (A - operand) mod 256; zero is set exactly when A equals the operand.
C16_CmpKeepsAccumulator ==
    [][(FetchedStep /\ last'.opcode \in {38, 39}) =>
          LET operand == OperandByRule(last'.opcode)
          IN  /\ accumulator' = accumulator
              /\ status_register' = StatusOf((accumulator - operand + 256) % 256)
              /\ status_register'[1] <=> (accumulator = operand)]_vars

\* CMP 0xFF after LOAD 0xFF has set zero and left 0xFF in the accumulator.
C16_Witness ==
    /\ last.op = "fetch" /\ last.fault = "none"
    /\ last.opcode = 38 /\ last.operand = 255
    /\ accumulator = 255 /\ status_register = <<TRUE, FALSE>>

\* C17: SUB leaves the accumulator as it was and the status that of the
\* accumulator, whatever the operand.
C17_SubKeepsAccumulator ==
    [][(FetchedStep /\ last'.opcode \in {36, 37}) =>
          /\ accumulator' = accumulator
          /\ status_register' = StatusOf(accumulator)]_vars

\* SUB 2 after LOAD 0xFF has left 0xFF in the accumulator, negative set.
C17_Witness ==
    /\ last.op = "fetch" /\ last.fault = "none"
    /\ last.opcode = 36 /\ last.operand = 2
    /\ accumulator = 255 /\ status_register = <<FALSE, TRUE>>

\* C18: STOR, ZERO, INC and DEC, in the even and in the odd encoding, read and
\* write the memory at the address that is the byte fetched at ip + 1: the
\* address handed to read() and write() is that byte, and when it names a RAM
\* cell, that cell and no other receives the value.
C18_AddressIsLiteral ==
    [][(last'.op = "fetch" /\ last'.fault \in {"none", "effect"}
            /\ last'.opcode \in {18, 19, 96, 97, 98, 99, 100, 101}) =>
          LET addr == ByteAfterOpcode
          IN  /\ last'.operand = addr
              /\ addr \in 128..159 =>
                    /\ last'.fault = "none"
                    /\ ram' = [ram EXCEPT ![addr - 128] =
                                        WrittenValue(last'.opcode, addr)]]_vars

\* C19: LSL and LSR never crash; with an operand below 8 the accumulator
\* becomes (A << operand) mod 256, respectively A >> operand, with the status
\* of the result; with an operand of 8 or more the outcome is a defined one:
\* every bit shifted out (the accumulator 0), or a fault that stops the clock
\* and leaves the accumulator alone, never a shift by the operand mod 8.
C19_ShiftDefined ==
    [][(last'.op = "fetch" /\ last'.fault \in {"none", "effect"}
            /\ last'.opcode \in 88..91) =>
          LET n == OperandByRule(last'.opcode)
              shifted == IF last'.opcode \in {88, 89}
                         THEN (accumulator * (2^n)) % 256
                         ELSE accumulator \div (2^n)
          IN  /\ ~panicked'
              /\ n < 8 =>
                    (accumulator' = shifted
                        /\ status_register' = StatusOf(accumulator'))
              /\ n >= 8 =>
                    \/ accumulator' = 0 /\ status_register' = StatusOf(0)
                    \/ ~clock_running' /\ accumulator' = accumulator]_vars

\* The byte at a ROM address as the claim states it: a half of the 16-bit
\* word of the selected bank.  The same byte as the bank's program lists it.
RomByte(address) ==
    LET word == rom_banks[rom_bank_select][address \div 2]
    IN  IF address % 2 = 0 THEN word \div 256 ELSE word % 256

ProgramByte(address) ==
    LET program == BankPrograms[rom_bank_select + 1]
    IN  IF address < Len(program) THEN program[address + 1] ELSE 0

\* C20: a read of an address in 0x00-0x7F returns the high byte of word addr/2
\* of the selected ROM bank for an even address and the low byte for an odd
\* one (the opcode at ip, the byte after it, and the operand an absolute
\* instruction reads from ROM are these bytes), and no step changes a ROM word
\* of any bank.
C20_RomReads ==
    [][/\ rom_banks' = rom_banks
       /\ (last'.op = "fetch" /\ last'.fault # "opcode"
               /\ instruction_pointer < 128) =>
              /\ last'.opcode = RomByte(instruction_pointer)
              /\ last'.opcode = ProgramByte(instruction_pointer)
       /\ (FetchedStep /\ instruction_pointer < 127) =>
              /\ last'.arg = RomByte(instruction_pointer + 1)
              /\ last'.arg = ProgramByte(instruction_pointer + 1)
       /\ (FetchedStep /\ last'.opcode % 2 = 1 /\ last'.opcode \notin 160..191
               /\ last'.arg < 128) =>
              /\ last'.operand = RomByte(last'.arg)
              /\ last'.operand = ProgramByte(last'.arg)]_vars

\* In bank B, selected while the program ran, the LOAD fetched at the odd
\* address 7 has read the low byte of word 0 from the odd address 1.
C20_Witness ==
    /\ rom_bank_select = 1 /\ budget.editor = 2
    /\ last.op = "fetch" /\ last.fault = "none"
    /\ last.ip = 7 /\ last.opcode = 17 /\ last.arg = 1
    /\ accumulator = 3

\* The step is process() handling one output sample.
SampleStep == last'.op \in {"fetch", "wait", "countdown", "idle"}

\* C21: process() handles every output sample by ticking the CPU, subject to
\* the instruction-rate gate, and then calling SoundChip::generate() exactly
\* once: over the sample the noise generator has stepped exactly once.
C21_GenerateEverySample ==
    [][SampleStep =>
          sound'.shift_register = NoiseStep(sound.shift_register)]_vars

\* C22: with sample_rate / clock_speed a whole number k and the clock
\* running, the first n samples hold exactly ceil(n / k) execute() calls, one
\* every k samples and never two for one sample; samples_until_execute stays
\* within (-1, k] and has the same value every k samples, k - 1 right after
\* the sample that executed and 0 right before the next one.
C22_ExecuteEveryK ==
    LET k == sample_rate \div clock_speed
        n == run.samples
    IN  (clock_running /\ ~panicked) =>
            /\ run.execute = (n + k - 1) \div k
            /\ run.execute <= n
            /\ samples_until_execute > -clock_speed
            /\ samples_until_execute <= k * clock_speed
            /\ n > 0 =>
                   samples_until_execute = (k - 1 - ((n - 1) % k)) * clock_speed

\* At 6 samples a second and 2 instructions a second the 7th sample has made
\* the third execute() call.
C22_Witness ==
    /\ sample_rate = 6 /\ clock_speed = 2
    /\ run.samples = 7 /\ run.execute = 3
    /\ last.op \in {"fetch", "wait"}
    /\ samples_until_execute = 4

\* The sound chip's channels and the address of each one's register 3.
Channels == {"square_wave_1", "square_wave_2", "triangle_wave", "noise"}

Register3(channel) ==
    CASE channel = "square_wave_1" -> 163
      [] channel = "square_wave_2" -> 167
      [] channel = "triangle_wave" -> 171
      [] channel = "noise" -> 175

\* C23: at every generate() call every channel's effective volume, the factor
\* that scales its wave value (itself 0 to 1) to the channel's sample, is a
\* number from 0 to 1, also with the envelope enabled at length 0 and with
\* note length 0; the mix of the samples is then a number too.
C23_SamplesInUnit ==
    last.op = "generate" =>
        \A channel \in Channels :
            LET volume == get_effective_volume(sound[channel])
            IN  ~volume.nan /\ 0 <= volume.num /\ volume.num <= volume.den

\* C30: a channel whose time since the last write to its register 3 exceeds
\* note_length / 60 seconds has effective volume 0, and it stays so over
\* every step that is not a write to that register, whatever the looping bit.
C30_NoteEnds ==
    [][\A channel \in Channels :
          LET before == sound[channel]
              after == sound'[channel]
              over(regs) ==
                  60 * regs.time_since_note > regs.note_length * sample_rate
          IN  /\ over(after) => get_effective_volume(after) = Number(0, 1)
              /\ (over(before)
                      /\ ~(last'.op = "write" /\ last'.arg = Register3(channel))) =>
                     over(after)]_vars

\* A looping channel at constant volume 15 whose note of length 1 is past its
\* end after two samples at 60 samples a second: its volume is 0.
C30_Witness ==
    /\ last.op = "generate" /\ sample_rate = 60
    /\ sound.square_wave_1.looping /\ ~sound.square_wave_1.envelope
    /\ sound.square_wave_1.envelope_length = 15
    /\ sound.square_wave_1.note_length = 1
    /\ sound.square_wave_1.time_since_note = 2
    /\ get_effective_volume(sound.square_wave_1) = Number(0, 1)

\* The opcodes whose instruction applies set_status_register, and the value
\* each hands to it: A after LOAD, ADD, AND, OR, XOR, the shifts and the
\* rotations; A as it was for STOR and SUB; the operand for SSR; A - operand
\* for CMP; A & operand for BIT; the byte written for ZERO, INC and DEC.
StatusOpcodes == (16..19) \cup (32..39) \cup (80..101)

StatusArgument(opcode, operand) ==
    CASE opcode \in {18, 19, 36, 37} -> accumulator
      [] opcode \in {34, 35} -> operand
      [] opcode \in {38, 39} -> (accumulator + 256 - operand) % 256
      [] opcode \in {82, 83} -> BitAnd(accumulator, operand)
      [] opcode \in 96..101 -> WrittenValue(opcode, operand)
      [] OTHER -> accumulator'

\* C24: after every instruction that applies status(x), zero is x = 0 and
\* negative is bit 7 of x; zero and negative are never both true.
C24_StatusFlags ==
    [][/\ (FetchedStep /\ last'.opcode \in StatusOpcodes) =>
              LET x == StatusArgument(last'.opcode, last'.operand)
              IN  status_register' = <<x = 0, (x \div 128) % 2 = 1>>
       /\ ~(status_register[1] /\ status_register[2])
       /\ ~(status_register'[1] /\ status_register'[2])]_vars

\* SSR 0x80 has set negative and not zero, the accumulator being 0.
C24_Witness ==
    /\ last.op = "fetch" /\ last.fault = "none"
    /\ last.opcode = 34 /\ last.operand = 128
    /\ accumulator = 0
    /\ status_register = <<FALSE, TRUE>>

\* C25: BREQ, BRNE, BRLT and BRGE leave the instruction pointer at the operand
\* exactly when zero, not zero, negative, not negative holds, and at
\* ip_before + 2 otherwise; JMP always leaves it at the operand; none changes
\* the accumulator, the status, cycles_waiting, RAM or the sound registers.
C25_Branches ==
    [][(FetchedStep /\ last'.opcode \in (48..55) \cup {64, 65}) =>
          LET opcode == last'.opcode
              zero == status_register[1]
              negative == status_register[2]
              taken == CASE opcode \in {48, 49} -> zero
                         [] opcode \in {50, 51} -> ~zero
                         [] opcode \in {52, 53} -> negative
                         [] opcode \in {54, 55} -> ~negative
                         [] opcode \in {64, 65} -> TRUE
          IN  /\ taken => instruction_pointer' = OperandByRule(opcode)
              /\ ~taken => instruction_pointer' = (instruction_pointer + 2) % 256
              /\ UNCHANGED <<accumulator, status_register, cycles_waiting, ram,
                             sound>>]_vars

\* BREQ 42 with zero set, after 0xFF was stored to RAM, has jumped to 42.
C25_Witness ==
    /\ last.op = "fetch" /\ last.fault = "none"
    /\ last.opcode = 48 /\ last.operand = 42 /\ last.ip = 8
    /\ status_register[1] /\ ram[0] = 255
    /\ instruction_pointer = 42

\* C26: INC and DEC with a target in 0x80-0xAF leave there the byte that was
\* there plus, respectively minus, 1 modulo 256, set the status from that new
\* byte and leave the accumulator as it was; ZERO leaves 0 there and the status
\* zero, not negative; with a target outside 0x80-0xAF each of them faults and
\* changes no RAM byte and no sound register.
C26_MemoryInstructions ==
    [][(last'.op = "fetch" /\ last'.fault \in {"none", "effect"}
            /\ last'.opcode \in 96..101) =>
          LET opcode == last'.opcode
              addr == last'.operand
              old == CpuRead(Cpu, addr).value
              new == CASE opcode \in {96, 97} -> 0
                       [] opcode \in {98, 99} -> (old + 1) % 256
                       [] opcode \in {100, 101} -> (old + 255) % 256
          IN  /\ addr \in 128..175 =>
                    /\ last'.fault = "none"
                    /\ CpuRead(Cpu', addr).value = new
                    /\ status_register' = <<new = 0, new >= 128>>
                    /\ accumulator' = accumulator
                    /\ opcode \in {96, 97} => status_register' = <<TRUE, FALSE>>
              /\ addr \notin 128..175 =>
                    /\ last'.fault = "effect" /\ panicked'
                    /\ UNCHANGED <<ram, sound, accumulator, status_register>>]_vars

\* INC of 0x80, which held 0xFF, has left 0x00 there, the status zero and the
\* accumulator 0xFF.
C26_Witness ==
    /\ last.op = "fetch" /\ last.fault = "none"
    /\ last.opcode = 98 /\ last.operand = 128 /\ last.ip = 8
    /\ ram[0] = 0 /\ accumulator = 255
    /\ status_register = <<TRUE, FALSE>>

\* C27: a LOAD in absolute mode of an address in 0xB0-0xFB faults and loads
\* nothing; of 0xFC, 0xFD, 0xFE, 0xFF it leaves in the accumulator 1 if
\* trampoline flag A, B, C, D respectively is set and 0 otherwise.
C27_HighReads ==
    [][(last'.op = "fetch" /\ last'.opcode = 17 /\ last'.arg \in 176..255) =>
          IF last'.arg \in 252..255
          THEN /\ last'.fault = "none"
               /\ accumulator' =
                      (IF trampoline_vectors[last'.arg - 252] THEN 1 ELSE 0)
               /\ accumulator' \in {0, 1}
          ELSE /\ last'.fault = "operand" /\ panicked'
               /\ accumulator' = accumulator]_vars

\* LOAD [0xFF] with only flag D set has loaded 1.
C27_Witness ==
    /\ last.op = "fetch" /\ last.fault = "none"
    /\ last.opcode = 17 /\ last.arg = 255
    /\ trampoline_vectors = [i \in 0..3 |-> i = 3]
    /\ accumulator = 1

\* C28: BEAT sets beats_waiting to its operand and, the instruction pointer
\* advancing, changes nothing else; an execute() call entered with
\* cycles_waiting = 0 fetches at the instruction pointer whatever
\* beats_waiting is, and the execute() call after a BEAT fetches the
\* instruction that follows it.
C28_Beat ==
    [][/\ (FetchedStep /\ last'.opcode \in {240, 241}) =>
              /\ beats_waiting' = OperandByRule(last'.opcode)
              /\ instruction_pointer' = (instruction_pointer + 2) % 256
              /\ UNCHANGED <<accumulator, status_register, cycles_waiting,
                             clock_running, ram, sound>>
       /\ (ExecuteStep /\ cycles_waiting = 0) =>
              (last'.op = "fetch" /\ last'.ip = instruction_pointer)
       /\ (ExecuteStep /\ last.op = "fetch" /\ last.fault = "none"
               /\ last.opcode \in {240, 241}) =>
              (last'.op = "fetch" /\ last'.ip = (last.ip + 2) % 256)]_vars

\* With beats_waiting 0xFF left by BEAT 0xFF at address 0, the HALT at address
\* 2 was fetched.
C28_Witness ==
    /\ beats_waiting = 255 /\ read_rom(0) = 240 /\ read_rom(1) = 255
    /\ last.op = "fetch" /\ last.ip = 2 /\ last.opcode = 0

\* The step is an instruction writing the register: STOR, ZERO, INC or DEC
\* with the register's address as operand, or the register's AWI opcode.
WritesRegister(register) ==
    /\ FetchedStep
    /\ \/ last'.opcode \in {18, 19} \cup (96..101) /\ last'.operand = register
       \/ last'.opcode \in 160..191 /\ (last'.opcode % 16) + 160 = register

\* C29: a channel's time_since_note becomes 0 in a write to the channel's
\* register 3 and in a reset, grows by one sample period in a generate() call,
\* and is left as it is by every other step: writes to the channel's other
\* registers and to other channels, and reads.
C29_TimeSinceNote ==
    [][\A channel \in Channels :
          LET before == sound[channel].time_since_note
              after == sound'[channel].time_since_note
          IN  IF last'.op = "generate" THEN after = before + 1
              ELSE IF last'.op = "reset" \/ WritesRegister(Register3(channel))
                   THEN after = 0
                   ELSE after = before]_vars

\* INC of 0xA3 after two generate() calls: the first square channel's time is
\* 0 again, the other channels' is two sample periods.
C29_Witness ==
    /\ last.op = "fetch" /\ last.fault = "none"
    /\ last.opcode = 98 /\ last.operand = 163
    /\ sound.square_wave_1.time_since_note = 0
    /\ sound.square_wave_2.time_since_note = 2
    /\ sound.noise.time_since_note = 2

\* The channels whose generator reads the effective period.
PitchedChannels == {"square_wave_1", "square_wave_2", "triangle_wave"}

\* The period after floor(time_since_note / 120 s) steps p := p + (p >> shift)
\* or p := p - (p >> shift) from the period register, in exact arithmetic.
SweptPeriod(regs) ==
    LET steps == regs.time_since_note \div (120 * sample_rate)
        swept[n \in 0..steps] ==
            IF n = 0 THEN regs.period
            ELSE LET p == swept[n - 1]
                     d == p \div (2^regs.shift_period)
                 IN  IF regs.shift_reverse THEN p - d ELSE p + d
    IN  swept[steps]

\* C31: with the sweep enabled the effective period is the period register
\* after floor(time_since_note / 120 s) sweep steps in the direction of
\* shift_reverse, with it disabled it is the period register, and shift_speed
\* does not influence it.
C31_EffectivePeriod ==
    \A channel \in PitchedChannels, checked \in BOOLEAN :
        LET regs == sound[channel]
        IN  /\ get_effective_period(regs, checked) =
                   Ok(IF regs.shift_enabled THEN SweptPeriod(regs) ELSE regs.period)
            /\ \A speed \in 0..7 :
                   get_effective_period([regs EXCEPT !.shift_speed = speed], checked)
                       = get_effective_period(regs, checked)

\* C35: in every state a generate() call leaves, get_effective_period of each
\* channel that uses it computes no period above 65535 and none below 0.
C35_PeriodFits ==
    last.op = "generate" =>
        \A channel \in PitchedChannels :
            LET regs == sound[channel]
                steps == seconds_to_shift_steps(regs.time_since_note)
            IN  /\ ~get_effective_period(regs, TRUE).fault
                /\ regs.shift_enabled =>
                       \A n \in 0..steps :
                           LET at == [regs EXCEPT !.time_since_note =
                                                      n * 120 * sample_rate]
                           IN  SweptPeriod(at) \in 0..65535

\* C32: a generate() call that returns steps the noise shift register once
\* and adds one sample period to the elapsed time of each of the four
\* channels, whatever the CPU did and whether or not a note has ended; the
\* noise channel's sample is its effective volume if the feedback bit the call
\* inserted at bit 14 is 0, and 0 if it is 1.
C32_GenerateSteps ==
    [][(last'.op = "generate" /\ last'.fault = "none") =>
          /\ sound'.shift_register = NoiseStep(sound.shift_register)
          /\ \A channel \in Channels :
                 sound'[channel] =
                     [sound[channel] EXCEPT !.time_since_note = @ + 1]
          /\ NoiseOutput(sound) =
                 IF (sound'.shift_register \div 16384) % 2 = 0
                 THEN get_effective_volume(sound'.noise)
                 ELSE Number(0, 1)]_vars

\* After the CPU executed its HALT, the second generate() call inserted the
\* feedback bit 0 and the noise channel, its note of length 31 not over at 30
\* samples a second, sounded at its constant volume 15.
C32_Witness ==
    /\ last.op = "generate" /\ last.fault = "none"
    /\ instruction_pointer = 2 /\ ~clock_running
    /\ sample_rate = 30
    /\ sound.shift_register = 8192
    /\ sound.noise.time_since_note = 2 /\ sound.noise.note_length = 31
    /\ ~NoteEnded(sound.noise)
    /\ get_effective_volume(sound.noise) = Number(15, 15)
    /\ sound.square_wave_1.time_since_note = 2

\* The channel of sound register index i, and the sub-register's index.
ChannelOf(i) ==
    <<"square_wave_1", "square_wave_2", "triangle_wave", "noise">>[(i \div 4) + 1]

\* C33: a write of sound register index i changes nothing outside channel
\* i / 4, and of the 16 values read back only the one read from register i:
\* within the channel only the read of sub-register i % 4 changes, to the value
\* written, also when a sibling register shares the period field.
C33_RegisterFrame ==
    [][(last'.op = "write" /\ last'.fault = "none") =>
          LET i == last'.arg - 160
              value == last'.operand
          IN  /\ \A channel \in Channels \ {ChannelOf(i)} :
                     sound'[channel] = sound[channel]
              /\ sound'.shift_register = sound.shift_register
              /\ \A j \in 0..3 :
                     ChannelRead(sound'[ChannelOf(i)], j) =
                         IF j = i % 4 THEN Ok(value)
                         ELSE ChannelRead(sound[ChannelOf(i)], j)
              /\ \A register \in 160..175 :
                     SoundRead(sound', register) =
                         IF register = 160 + i THEN Ok(value)
                         ELSE SoundRead(sound, register)]_vars

\* 0x00 written to register 2 of the second square channel, whose period was
\* 2047: the period's low byte is 0 and register 3 still reads 0xFF.
C33_Witness ==
    /\ last.op = "write" /\ last.fault = "none"
    /\ last.arg = 166 /\ last.operand = 0
    /\ sound.square_wave_2.period = 1792
    /\ SoundRead(sound, 167) = Ok(255)
    /\ SoundRead(sound, 166) = Ok(0)
    /\ sound.square_wave_1.period = 2047

\* C34: reset() leaves cycles_waiting, beats_waiting and clock_running as they
\* were and the instruction pointer at 0, while the stop button also clears
\* clock_running; every execute() call entered with stall ticks remaining,
\* after a reset too, only lowers cycles_waiting by 1 and leaves the
\* instruction pointer alone, and the call entered with none remaining fetches
\* at the instruction pointer, so that n remaining ticks delay the first fetch
\* at 0 by n calls.
C34_ResetKeepsStall ==
    [][/\ last'.op = "reset" =>
              /\ UNCHANGED <<cycles_waiting, beats_waiting, clock_running>>
              /\ instruction_pointer' = 0
       /\ last'.op = "stop" =>
              /\ ~clock_running' /\ instruction_pointer' = 0
              /\ UNCHANGED <<cycles_waiting, beats_waiting>>
       /\ (ExecuteStep /\ cycles_waiting > 0) =>
              /\ last'.op = "wait"
              /\ cycles_waiting' = cycles_waiting - 1
              /\ UNCHANGED <<instruction_pointer, clock_running>>
              /\ stall'.count = stall.count + 1
       /\ (ExecuteStep /\ cycles_waiting = 0) =>
              (last'.op = "fetch" /\ last'.ip = instruction_pointer)]_vars

\* A reset has come while the CPU ran and the two stall ticks of NOOP 2
\* remained: the CPU still runs and the ticks still remain, at address 0.
C34_Witness ==
    /\ last.op = "reset"
    /\ read_rom(0) = 242 /\ read_rom(1) = 2
    /\ clock_running /\ cycles_waiting = 2
    /\ instruction_pointer = 0

\* The step takes a jump or branch whose operand is odd.
OddJump ==
    /\ FetchedStep
    /\ JumpTaken(last'.opcode, status_register)
    /\ last'.operand % 2 = 1

\* C38: reset and stop leave the instruction pointer at 0, an overwrite button
\* at one of the even values 0x00, 0x10, ..., 0x70, an instruction that is not
\* a taken jump or branch at ip + 2 modulo 256; so from an even instruction
\* pointer every step but a taken jump or branch with an odd operand leads to
\* an even one.
C38_EvenInstructionPointer ==
    [][/\ last'.op \in {"reset", "stop"} => instruction_pointer' = 0
       /\ last'.op = "overwrite" =>
              (instruction_pointer' \in {0, 16, 32, 48, 64, 80, 96, 112}
                  /\ instruction_pointer' % 2 = 0)
       /\ (FetchedStep /\ ~JumpTaken(last'.opcode, status_register)) =>
              instruction_pointer' = (instruction_pointer + 2) % 256
       /\ (instruction_pointer % 2 = 0 /\ ~OddJump) =>
              instruction_pointer' % 2 = 0]_vars

\* After an overwrite to 0x70 and JMP 254 there, the instruction fetched at
\* 254 has left the instruction pointer at 0.
C38_Witness ==
    /\ budget.editor >= 1
    /\ read_rom(0) = 64 /\ read_rom(1) = 254
    /\ last.op = "fetch" /\ last.fault = "none" /\ last.ip = 254
    /\ last.opcode = 0
    /\ instruction_pointer = 0

\* The step is one sample of process().
ProcessStep == last'.op \in {"fetch", "wait", "countdown", "idle"}

\* C39: process() calls execute() only on a sample that finds clock_running
\* true; a sample that finds it false sets samples_until_execute to 0; and
\* when a button turns clock_running from false to true samples_until_execute
\* is not above 0, so that the first sample after it executes.
C39_StartExecutesAtOnce ==
    [][/\ ExecuteStep => clock_running
       /\ (ProcessStep /\ ~clock_running) =>
              (last'.op = "idle" /\ samples_until_execute' = 0)
       /\ (ProcessStep /\ clock_running /\ samples_until_execute <= 0) =>
              ExecuteStep
       /\ (~clock_running /\ clock_running') =>
              (last'.op \in {"play", "overwrite"}
                  /\ samples_until_execute' <= 0)]_vars

\* The widths of a channel's fields.
FieldsInWidth(regs) ==
    /\ regs.duty_cycle \in 0..3
    /\ regs.envelope_length \in 0..15
    /\ regs.shift_period \in 0..7
    /\ regs.shift_speed \in 0..7
    /\ regs.period \in 0..2047
    /\ regs.note_length \in 0..31

\* C40: every channel's fields are within their bit widths, no square channel
\* has a duty cycle the generator's match has no arm for, and no write to a
\* register 0xA0-0xAF has panicked.
C40_FieldsInWidth ==
    /\ \A channel \in Channels : FieldsInWidth(sound[channel])
    /\ sound.square_wave_1.duty_cycle \in 0..3
    /\ sound.square_wave_2.duty_cycle \in 0..3
    /\ last.op = "write" => (last.fault = "none" /\ ~panicked)

\* 0xFF written to register 0 of the first square channel of a chip whose
\* registers all held 0xFF: the duty cycle is 3, the volume 15, the period 2047.
C40_Witness ==
    /\ last.op = "write" /\ last.arg = 160 /\ last.operand = 255
    /\ sound.square_wave_1.duty_cycle = 3
    /\ sound.square_wave_1.envelope_length = 15
    /\ sound.square_wave_1.period = 2047
    /\ sound.square_wave_1.note_length = 31

\* The step is taken by the audio thread inside process().
AudioStep == pc'.audio # pc.audio

\* The step is taken by the editor thread: it moves on in its frame, or it
\* handles a button or a ROM cell.
EditorStep == pc'.editor # pc.editor \/ budget'.editor # budget.editor

\* The step is the host's Plugin::reset.
HostStep == last'.op = "plugin_reset" /\ pc' = pc /\ budget' = budget

\* execute() has started to fetch an instruction and has not yet acted on it.
InFlight == pc.audio \in {"read_opcode", "opcode", "read_arg", "fetched"}

\* C36: every access of the audio thread and of the editor thread to the
\* CPU and its sound chip happens while that thread holds the one CPU mutex:
\* a thread past its lock() acts only as the holder, lock() goes through only
\* when no thread holds the mutex and touches nothing, nothing but a step of
\* one of the threads changes the CPU or what it reads, and from the first
\* byte execute() fetches to the instruction's effect no step but the audio
\* thread's changes the CPU, the ROM, a parameter or the countdown.
C36_UnderCpuMutex ==
    [][/\ (AudioStep /\ pc.audio # "start") => cpu_mutex = "audio"
       /\ (EditorStep /\ pc.editor # "start") => cpu_mutex = "editor"
       /\ ((AudioStep /\ pc.audio = "start")
              \/ (EditorStep /\ pc.editor = "start")) =>
              (cpu_mutex = "free"
                  /\ UNCHANGED <<cpu_vars, param_vars, samples_until_execute>>)
       /\ HostStep => cpu_mutex = "free"
       /\ ~(AudioStep /\ EditorStep)
       /\ (<<cpu_vars, param_vars>>' # <<cpu_vars, param_vars>>) =>
              (AudioStep \/ EditorStep \/ HostStep)
       /\ InFlight =>
              (AudioStep \/ UNCHANGED <<cpu_vars, param_vars,
                                        samples_until_execute>>)]_vars

\* C36: execute() has fetched an instruction of a running program and not yet
\* acted on it, the editor has pressed a button before and now waits for the
\* CPU mutex.
C36_Witness ==
    /\ pc.audio = "fetched"
    /\ pc.editor = "start"
    /\ cpu_mutex = "audio"
    /\ budget.editor = MaxEditorActions - 1
    /\ ~panicked

\* The audio thread waits for a mutex that is held.
AudioBlocked ==
    \/ pc.audio = "start" /\ cpu_mutex # "free"
    \/ /\ pc.audio \in {"locked", "opcode"}
       /\ Fetching
       /\ FetchAddress < 128
       /\ rom_mutex # "free"
    \/ pc.audio = "fetched" /\ rom_mutex # "free"

\* The editor thread waits for a mutex that is held.
EditorBlocked ==
    \/ pc.editor = "start" /\ cpu_mutex # "free"
    \/ pc.editor = "rom" /\ rom_mutex # "free"

\* Both threads wait, or one waits for a mutex it holds itself.
Deadlocked ==
    /\ ~panicked
    /\ \/ AudioBlocked /\ EditorBlocked
       \/ AudioBlocked /\ pc.audio # "start" /\ rom_mutex = "audio"
       \/ EditorBlocked /\ pc.editor # "start" /\ rom_mutex = "editor"

\* C37: the audio thread and the editor thread never deadlock: a thread takes
\* the CPU mutex holding no mutex, takes the ROM-bank mutex only while it holds
\* the CPU mutex, and with the ROM-bank mutex held its next step releases it,
\* so no thread requests a lock while it holds the ROM-bank mutex; in no
\* state reached do both threads wait.
C37_NoDeadlock ==
    [][/\ (cpu_mutex = "free" /\ cpu_mutex' # "free") => rom_mutex = "free"
       /\ (rom_mutex = "free" /\ rom_mutex' # "free") =>
              (cpu_mutex = rom_mutex' /\ cpu_mutex' = cpu_mutex)
       /\ (rom_mutex = "audio" /\ AudioStep) =>
              (rom_mutex' = "free" /\ cpu_mutex' = "audio")
       /\ (rom_mutex = "editor" /\ pc'.editor # pc.editor) =>
              (rom_mutex' = "free" /\ cpu_mutex' = "editor")
       /\ rom_mutex' # "free" => cpu_mutex' = rom_mutex'
       /\ ~Deadlocked']_vars

\* C37: the editor holds the CPU mutex and, inside it, the ROM-bank mutex for
\* a cell it has edited, while the audio thread waits for the CPU mutex to run
\* the started program.
C37_Witness ==
    /\ cpu_mutex = "editor"
    /\ rom_mutex = "editor"
    /\ pc.audio = "start"
    /\ AudioBlocked
    /\ clock_running
    /\ last.op = "edit"
    /\ ~panicked
====
